---- MODULE Spec2Model ----
(***************************************************************************)
(* Room and message consistency core of the chat backend: RoomService      *)
(* (server/src/services/roomService.ts), the Room model with its hooks,    *)
(* index and document methods, MessageService with the Message model and   *)
(* its unread-count cache, and the account deletion of UserService with    *)
(* the cascade of the User model.                                           *)
(*                                                                         *)
(* Every service call is an async function.  It may be suspended at each   *)
(* await of the store or of the cache, so one action of the model is the   *)
(* code of a call between two awaits, and the calls of the different slots *)
(* interleave at these points.                                             *)
(*                                                                         *)
(* A room document that a call has loaded is a private copy (field doc of  *)
(* the call).  Document.save() writes the modified paths only: an array    *)
(* push is sent as $push and increments the version key __v without        *)
(* testing it; an assignment of a whole array is sent as $set together     *)
(* with the condition __v = the version that was loaded, and fails with a  *)
(* VersionError when the stored version differs; a scalar is sent as $set  *)
(* without a condition.  Every save() of a message ends with the          *)
(* post('save') hook of the Message model, a separate update of the room.  *)
(* The date of new Date() is the number of calls issued so far.            *)
(***************************************************************************)
EXTENDS Integers, Sequences, FiniteSets, TLC

\* ------------------------------------------------------------------ bounds
NProcs == 2       \* calls that may be in progress at the same time
MaxCalls == 3     \* calls issued in one behaviour
MaxIds == 2       \* length of a participantIds array of a request

\* --------------------------------------------------------------- constants
Users == {"a", "b", "c"}          \* registered users
Ghost == "z"                      \* an id that resolves to no user
UserIds == Users \cup {Ghost}
Procs == 1..NProcs

DIRECT == "direct"
GROUP == "group"
CHANNEL == "channel"
ROOM_TYPES == {DIRECT, GROUP, CHANNEL}

\* error kinds (utils/errors.ts); Error is the untyped JavaScript Error,
\* DuplicateKey the E11000 error of the store, VersionError the one of save()
OK == "ok"
NotFoundError == "NotFound"
BadRequestError == "BadRequest"
AuthorizationError == "Authorization"
PlainError == "Error"
DuplicateKey == "DuplicateKey"
VersionError == "VersionError"

\* USER_STATUS
ONLINE == "online"
OFFLINE == "offline"
AWAY == "away"
BUSY == "busy"
USER_STATUS == {ONLINE, OFFLINE, AWAY, BUSY}

\* MESSAGE_TYPES: text, image for the types that need a fileUrl, and system
TEXT == "text"
IMAGE == "image"
SYSTEM == "system"
MESSAGE_TYPES == {TEXT, IMAGE, SYSTEM}
Contents == {"hi", "yo"}          \* message contents of the requests
NIL == "nil"                      \* null: no cache entry
NoDate == 0                       \* null: the default of deletedAt

\* calls issued in one behaviour when the message operations take part: a
\* room and a first message come before the calls that are observed
MaxMsgCalls == MaxCalls + 2
RoomIds == 1..MaxCalls            \* ids of the rooms that can exist

VARIABLES
  users,      \* ids of the User documents in the store
  rooms,      \* sequence of Room documents; the room id is the index
  userRooms,  \* cache: user id -> set of room ids (REDIS_KEYS.USER_ROOMS)
  calls,      \* slot -> the service call running in it
  ncalls,     \* number of calls issued so far; also the clock of new Date()
  base,       \* the rooms when the running batch of overlapping calls began
  messages,   \* sequence of Message documents; the message id is the index
  lastMessage,\* room id -> Room.lastMessage, 0 for null
  unread,     \* cache: <<user id, room id>> -> string (REDIS_KEYS.UNREAD_COUNT)
  userDocs,   \* user id -> status and lastSeen of the User document
  onlineUsers,\* cache: the set of user ids REDIS_KEYS.ONLINE_USERS
  userOnline  \* cache: user id -> the value of REDIS_KEYS.USER_ONLINE, if any

vars == <<users, rooms, userRooms, calls, ncalls, base, messages, lastMessage, unread,
          userDocs, onlineUsers, userOnline>>
messageVars == <<messages, lastMessage, unread>>
presenceVars == <<userDocs, onlineUsers, userOnline>>

\* ----------------------------------------------------------- array helpers
Range(s) == {s[i] : i \in 1..Len(s)}

\* Array.prototype.includes / some(id => id.toString() === x.toString())
Includes(s, x) == \E i \in 1..Len(s) : s[i] = x

\* Array.prototype.filter(id => id.toString() !== x.toString())
RECURSIVE Without(_, _)
Without(s, x) ==
  IF s = <<>> THEN <<>>
  ELSE IF Head(s) = x THEN Without(Tail(s), x)
       ELSE <<Head(s)>> \o Without(Tail(s), x)

\* all arrays of ids of length 0..n
RECURSIVE SeqsUpTo(_, _)
SeqsUpTo(S, n) ==
  IF n = 0 THEN {<<>>}
  ELSE LET shorter == SeqsUpTo(S, n - 1)
       IN shorter \cup {Append(s, x) : s \in {t \in shorter : Len(t) = n - 1}, x \in S}

IdArrays == SeqsUpTo(UserIds, MaxIds)

\* ------------------------------------------------------------ Room model
\* the name of a room: absent or empty (NoName), or one of two names
NoName == ""
Names == {"n1", "n2"}

NoDoc == [type |-> "none", name |-> NoName, participants |-> <<>>, admins |-> <<>>,
          createdBy |-> "none", isActive |-> FALSE, v |-> 0]

\* a membership test that every user passes
isParticipantAnyone(doc, userId) == TRUE

\* roomSchema.methods.isParticipant
isParticipant(doc, userId) == Includes(doc.participants, userId)

\* room.type === ROOM_TYPES.DIRECT
DirectRoomNever(doc) == FALSE

DirectRoom(doc) == doc.type = DIRECT

\* roomSchema.methods.isAdmin
isAdminOrParticipant(doc, userId) ==
  Includes(doc.admins, userId) \/ Includes(doc.participants, userId)

isAdmin(doc, userId) == Includes(doc.admins, userId)

\* roomSchema.pre('validate'): direct rooms have exactly 2 participants,
\* group and channel rooms have a name
ValidateRoom(doc) ==
  /\ ~(doc.type = DIRECT /\ Len(doc.participants) # 2)
  /\ ~(doc.type \in {GROUP, CHANNEL} /\ doc.name = NoName)

\* roomSchema.pre('save') of a new document: the creator joins participants
\* and admins
PreSaveNoAdmin(doc) ==
  [doc EXCEPT !.participants =
     IF Includes(doc.participants, doc.createdBy) THEN doc.participants
     ELSE Append(doc.participants, doc.createdBy)]

PreSave(doc) ==
  LET d1 == [doc EXCEPT !.participants =
               IF Includes(doc.participants, doc.createdBy) THEN doc.participants
               ELSE Append(doc.participants, doc.createdBy)]
  IN [d1 EXCEPT !.admins =
        IF Includes(d1.admins, d1.createdBy) THEN d1.admins
        ELSE Append(d1.admins, d1.createdBy)]

\* roomSchema.index({type: 1, participants: 1}, {unique: true,
\* partialFilterExpression: {type: direct}}): a multikey index, one key
\* (type, participant) per element of participants and the key
\* (type, undefined) for an empty array; no two documents of type direct may
\* hold the same key
IndexKeys(doc) ==
  IF doc.participants = <<>> THEN {"undefined"} ELSE Range(doc.participants)

IndexFree(rs, doc) == TRUE

IndexAccepts(rs, doc) ==
  doc.type = DIRECT =>
    \A r \in 1..Len(rs) :
      rs[r].type = DIRECT => IndexKeys(rs[r]) \cap IndexKeys(doc) = {}

\* Room.findOne({type: direct, participants: {$all: [u1, u2]}}): the first
\* matching document, 0 when there is none
FindDirect(rs, u1, u2) ==
  LET hits == {r \in 1..Len(rs) : /\ rs[r].type = DIRECT
                                  /\ Includes(rs[r].participants, u1)
                                  /\ Includes(rs[r].participants, u2)}
  IN IF hits = {} THEN 0 ELSE CHOOSE r \in hits : \A q \in hits : r <= q

\* ------------------------------------------------------------------ calls
\* a Message document that is not there
NoMessage == [room |-> 0, sender |-> "none", content |-> "none", type |-> "none",
              readBy |-> <<>>, isEdited |-> FALSE, isDeleted |-> FALSE,
              deletedAt |-> NoDate, replyTo |-> 0]

\* messageId, message, content and date belong to the calls of MessageService:
\* the id and the loaded copy of the message, the content of the request and
\* the value of new Date().  seen is not in the code: the number of messages
\* in the store at the updateMany of a markRoomAsRead, and for getUnreadCount
\* the number that the last markRoomAsRead of the same user and room that
\* had returned before the call saw (-1 when there is none).  replyTo is
\* data.replyTo of sendMessage (0 when absent) and view is what a read
\* operation returns: the JSON forms of the messages in its result.
Idle == [op |-> "idle", pc |-> "idle", userId |-> "none", type |-> "none",
         name |-> NoName, ids |-> <<>>, roomId |-> 0, target |-> "none",
         doc |-> NoDoc, i |-> 0, res |-> "none", ret |-> 0, retActive |-> FALSE,
         messageId |-> 0, message |-> NoMessage, content |-> "none",
         date |-> NoDate, seen |-> -1, replyTo |-> 0, view |-> <<>>]

Running(c) == c.pc \notin {"idle", "done"}
Quiet == \A p \in Procs : ~Running(calls[p])

\* the call throws err / returns room r, whose isActive the caller sees
Fail(c, err) ==
  [c EXCEPT !.pc = "done", !.res = err, !.doc = NoDoc, !.i = 0,
            !.message = NoMessage, !.date = NoDate, !.view = <<>>]
Return(c, r, active) ==
  [c EXCEPT !.pc = "done", !.res = OK, !.ret = r, !.retActive = active,
            !.doc = NoDoc, !.i = 0, !.message = NoMessage, !.date = NoDate]


Init ==
  /\ users = Users
  /\ rooms = <<>>
  /\ userRooms = [u \in Users |-> {}]
  /\ calls = [p \in Procs |-> Idle]
  /\ ncalls = 0
  /\ base = <<>>
  /\ messages = <<>>
  /\ lastMessage = [r \in RoomIds |-> 0]
  /\ unread = [k \in Users \X RoomIds |-> NIL]
  /\ userDocs = [u \in Users |-> [status |-> OFFLINE, lastSeen |-> 0]]
  /\ onlineUsers = {}
  /\ userOnline = [u \in Users |-> <<>>]

\* A call is issued and runs to its first await.  The slots are
\* interchangeable, so a call takes the first free one.  When no call is in
\* progress a new batch of overlapping calls begins: the finished calls are
\* forgotten and the rooms are remembered.  overlap = FALSE issues a call
\* only when no other call is in progress.
IssueWithin(p, c, overlap, limit) ==
  /\ ncalls < limit
  /\ ncalls' = ncalls + 1
  /\ IF Quiet
       THEN /\ p = 1
            /\ calls' = [q \in Procs |-> IF q = p THEN c ELSE Idle]
            /\ base' = rooms
       ELSE /\ overlap
            /\ calls[p].pc = "idle"
            /\ \A q \in 1..(p - 1) : calls[q].pc # "idle"
            /\ calls' = [calls EXCEPT ![p] = c]
            /\ base' = base

Issue(p, c, overlap) == IssueWithin(p, c, overlap, MaxCalls)

\* a step of the call in slot p that changes neither store nor cache
Step(p, c) ==
  /\ calls' = [calls EXCEPT ![p] = c]
  /\ UNCHANGED <<users, presenceVars, rooms, userRooms, ncalls, base, messageVars>>

\* redisClient.sAdd / sRem on the USER_ROOMS sets of the users in us
SAdd(cache, us, r) == [u \in Users |-> IF u \in us THEN cache[u] \cup {r} ELSE cache[u]]
SRem(cache, us, r) == [u \in Users |-> IF u \in us THEN cache[u] \ {r} ELSE cache[u]]

\* ------------------------------------------------------------- createRoom
\* User.find({_id: {$in: participantIds}}): the users whose id is listed
FoundUsers(ids) == Range(ids) \cap users

\* if (participantIds.length !== 1) throw BadRequestError
DirectCountLoose(ids) == Len(ids) >= 1

DirectCountOK(ids) == Len(ids) = 1

\* createRoom from the result of User.find to the await of Room.findOne
\* (direct) or of Room.create (group, channel)
Validated(c) ==
  IF Cardinality(FoundUsers(c.ids)) # Len(c.ids) THEN Fail(c, BadRequestError)
  ELSE IF c.type = DIRECT
    THEN IF ~DirectCountOK(c.ids) THEN Fail(c, BadRequestError)
         ELSE [c EXCEPT !.pc = "find"]
    ELSE IF c.name = NoName THEN Fail(c, BadRequestError)
         ELSE [c EXCEPT !.pc = "create"]

createRoom(p, callers, types, arrays, overlap) ==
  \E u \in callers \cap users, t \in types, n \in {NoName, "n1"} : \E ids \in arrays[t] :
    /\ t = DIRECT => n = NoName
    /\ Issue(p, Validated([Idle EXCEPT !.op = "createRoom", !.userId = u, !.type = t,
                                       !.name = n, !.ids = ids]), overlap)
    /\ UNCHANGED <<users, presenceVars, rooms, userRooms, messageVars>>

\* the result of Room.findOne: return the existing room or go on to create
createRoomFind(p) ==
  LET c == calls[p]
      r == FindDirect(rooms, c.userId, c.ids[1])
  IN /\ c.pc = "find"
     /\ Step(p, IF r # 0 THEN Return(c, r, rooms[r].isActive)
                ELSE [c EXCEPT !.pc = "create"])

\* the document handed to Room.create
NewRoom(c) ==
  IF c.type = DIRECT
    THEN [NoDoc EXCEPT !.type = DIRECT, !.participants = <<c.userId, c.ids[1]>>,
                       !.createdBy = c.userId, !.isActive = TRUE]
    ELSE [NoDoc EXCEPT !.type = c.type, !.name = c.name,
                       !.participants = Append(c.ids, c.userId),
                       !.admins = <<c.userId>>,
                       !.createdBy = c.userId, !.isActive = TRUE]

\* Room.create: validation, pre-save hook, insert under the unique index
createRoomCreate(p) ==
  LET c == calls[p]
      doc == PreSave(NewRoom(c))
  IN /\ c.pc = "create"
     /\ IF ~ValidateRoom(NewRoom(c))
          THEN /\ calls' = [calls EXCEPT ![p] = Fail(c, PlainError)]
               /\ rooms' = rooms
          ELSE IF ~IndexAccepts(rooms, doc)
            THEN /\ calls' = [calls EXCEPT ![p] = Fail(c, DuplicateKey)]
                 /\ rooms' = rooms
            ELSE /\ rooms' = Append(rooms, doc)
                 /\ calls' = [calls EXCEPT ![p] =
                                [c EXCEPT !.pc = "cache", !.ret = Len(rooms) + 1]]
     /\ UNCHANGED <<users, presenceVars, userRooms, ncalls, base, messageVars>>

\* redisClient.sAdd(USER_ROOMS(participant), room) for the participants of
\* the request and the creator
createRoomCache(p) ==
  LET c == calls[p]
  IN /\ c.pc = "cache"
     /\ c.op \in {"createRoom", "getOrCreateDirectRoom"}
     /\ userRooms' = SAdd(userRooms, Range(c.ids) \cup {c.userId}, c.ret)
     /\ calls' = [calls EXCEPT ![p] = Return(c, c.ret, TRUE)]
     /\ UNCHANGED <<users, presenceVars, rooms, ncalls, base, messageVars>>

\* -------------------------------------------------- getOrCreateDirectRoom
\* from the entry to the result of User.findById(otherUserId)
getOrCreateDirectRoom(p, callers, others, overlap) ==
  \E u \in callers \cap users, o \in others :
    LET c == [Idle EXCEPT !.op = "getOrCreateDirectRoom", !.userId = u,
                          !.type = DIRECT, !.ids = <<o>>]
    IN /\ Issue(p, IF o \notin users THEN Fail(c, NotFoundError)
                   ELSE [c EXCEPT !.pc = "gfind"], overlap)
       /\ UNCHANGED <<users, presenceVars, rooms, userRooms, messageVars>>

\* the result of Room.findOne: return the existing room or call createRoom,
\* which awaits User.find
getOrCreateDirectRoomFind(p) ==
  LET c == calls[p]
      r == FindDirect(rooms, c.userId, c.ids[1])
  IN /\ c.pc = "gfind"
     /\ Step(p, IF r # 0 THEN Return(c, r, rooms[r].isActive)
                ELSE [c EXCEPT !.pc = "validate"])

\* createRoom called by getOrCreateDirectRoom: the result of User.find
createRoomValidate(p) ==
  /\ calls[p].pc = "validate"
  /\ calls[p].op = "getOrCreateDirectRoom"
  /\ Step(p, Validated(calls[p]))

\* ------------------------------------------------------------- deleteRoom
\* from Room.findById to the await of room.save()
deleteRoom(p, callers, overlap) ==
  \E u \in callers \cap users, r \in 1..(Len(rooms) + 1) :
    LET c == [Idle EXCEPT !.op = "deleteRoom", !.userId = u, !.roomId = r]
    IN /\ Issue(p, IF r > Len(rooms) THEN Fail(c, NotFoundError)
                   ELSE IF rooms[r].createdBy # u /\ ~isAdmin(rooms[r], u)
                     THEN Fail(c, AuthorizationError)
                   ELSE [c EXCEPT !.pc = "save", !.doc = rooms[r]], overlap)
       /\ UNCHANGED <<users, presenceVars, rooms, userRooms, messageVars>>

\* room.isActive = false; room.save(): the pre('validate') hooks run on the
\* loaded document, then the $set of isActive
deleteRoomSave(p) ==
  LET c == calls[p]
  IN /\ c.pc = "save"
     /\ c.op = "deleteRoom"
     /\ IF ~ValidateRoom(c.doc)
          THEN /\ calls' = [calls EXCEPT ![p] = Fail(c, PlainError)]
               /\ UNCHANGED rooms
          ELSE /\ rooms' = [rooms EXCEPT ![c.roomId].isActive = FALSE]
               /\ calls' = [calls EXCEPT ![p] = [c EXCEPT !.pc = "cache"]]
     /\ UNCHANGED <<users, presenceVars, userRooms, ncalls, base, messageVars>>

\* redisClient.sRem for every participant of the loaded document
deleteRoomCache(p) ==
  LET c == calls[p]
  IN /\ c.pc = "cache"
     /\ c.op = "deleteRoom"
     /\ userRooms' = SRem(userRooms, Range(c.doc.participants), c.roomId)
     /\ calls' = [calls EXCEPT ![p] = Return(c, c.roomId, FALSE)]
     /\ UNCHANGED <<users, presenceVars, rooms, ncalls, base, messageVars>>

\* ---------------------------------------------------------- deleteAccount
\* from User.findById to the await of user.deleteOne()
deleteAccount(p, callers, overlap, limit) ==
  \E u \in callers :
    LET c == [Idle EXCEPT !.op = "deleteAccount", !.userId = u]
    IN /\ IssueWithin(p, IF u \notin users THEN Fail(c, NotFoundError)
                         ELSE [c EXCEPT !.pc = "remove"], overlap, limit)
       /\ UNCHANGED <<users, presenceVars, rooms, userRooms, messageVars>>

\* userSchema.pre('remove'): Room.updateMany({participants: id},
\* {$pull: {participants: id, admins: id}}), the documents from r on.  The
\* update stops at the first document the unique index refuses and keeps
\* the updates made before it.
RECURSIVE Pulled(_, _, _)
Pulled(rs, u, r) ==
  IF r > Len(rs) THEN [rooms |-> rs, ok |-> TRUE]
  ELSE IF ~Includes(rs[r].participants, u) THEN Pulled(rs, u, r + 1)
  ELSE LET d == [rs[r] EXCEPT !.participants = Without(@, u),
                              !.admins = Without(@, u)]
       IN IF IndexAccepts([rs EXCEPT ![r] = NoDoc], d)
            THEN Pulled([rs EXCEPT ![r] = d], u, r + 1)
            ELSE [rooms |-> rs, ok |-> FALSE]

\* user.deleteOne().  The cascade is registered for the 'remove' event of the
\* document while the service calls deleteOne(): whether the hook runs
\* depends on the version of the store library, so both outcomes are kept.
\* An error of the hook is passed to next() and rejects deleteOne().
deleteAccountCascade(p) ==
  LET c == calls[p]
      upd == Pulled(rooms, c.userId, 1)
  IN /\ c.pc = "remove"
     /\ rooms' = upd.rooms
     /\ calls' = [calls EXCEPT ![p] = IF upd.ok THEN [c EXCEPT !.pc = "messages"]
                                                ELSE Fail(c, DuplicateKey)]
     /\ UNCHANGED <<users, presenceVars, userRooms, ncalls, base, messageVars>>

\* userSchema.pre('remove'): Message.updateMany({sender: id},
\* {isDeleted: true, deletedAt: new Date()})
SenderDeleted(ms, u, now) ==
  [k \in 1..Len(ms) |->
     IF ms[k].sender = u THEN [ms[k] EXCEPT !.isDeleted = TRUE, !.deletedAt = now]
     ELSE ms[k]]

deleteAccountMessages(p) ==
  LET c == calls[p]
  IN /\ c.pc = "messages"
     /\ messages' = SenderDeleted(messages, c.userId, ncalls)
     /\ calls' = [calls EXCEPT ![p] = [c EXCEPT !.pc = "delete"]]
     /\ UNCHANGED <<users, presenceVars, rooms, userRooms, ncalls, base, lastMessage, unread>>

\* the document is deleted; redisClient.del of the USER_SESSION key, which
\* holds nothing that is kept here, to the await of the next del
deleteAccountDelete(p) ==
  LET c == calls[p]
  IN /\ c.pc \in {"remove", "delete"}
     /\ users' = users \ {c.userId}
     /\ calls' = [calls EXCEPT ![p] = [c EXCEPT !.pc = "delOnline"]]
     /\ UNCHANGED <<rooms, userRooms, ncalls, base, messageVars, presenceVars>>

\* redisClient.del(REDIS_KEYS.USER_ONLINE(userId))
deleteAccountDelOnline(p) ==
  LET c == calls[p]
  IN /\ c.pc = "delOnline"
     /\ c.op = "deleteAccount"
     /\ userOnline' = [userOnline EXCEPT ![c.userId] = <<>>]
     /\ calls' = [calls EXCEPT ![p] = [c EXCEPT !.pc = "sRemOnline"]]
     /\ UNCHANGED <<users, rooms, userRooms, ncalls, base, messageVars,
                    userDocs, onlineUsers>>

\* redisClient.sRem(REDIS_KEYS.ONLINE_USERS, userId)
deleteAccountSRemOnline(p) ==
  LET c == calls[p]
  IN /\ c.pc = "sRemOnline"
     /\ c.op = "deleteAccount"
     /\ onlineUsers' = onlineUsers \ {c.userId}
     /\ calls' = [calls EXCEPT ![p] = Return(c, 0, FALSE)]
     /\ UNCHANGED <<users, rooms, userRooms, ncalls, base, messageVars,
                    userDocs, userOnline>>

\* ----------------------------------------------------------- updateStatus
\* updateStatus from User.findById to the await of user.save(): status and
\* lastSeen are set on the loaded document
updateStatus(p, callers, statuses, overlap) ==
  \E u \in callers, status \in statuses :
    LET c == [Idle EXCEPT !.op = "updateStatus", !.userId = u, !.type = status]
    IN /\ IssueWithin(p, IF u \notin users THEN Fail(c, NotFoundError)
                         ELSE [c EXCEPT !.pc = "saveStatus", !.date = ncalls + 1],
                      overlap, MaxMsgCalls)
       /\ UNCHANGED <<users, rooms, userRooms, messageVars, presenceVars>>

\* user.save(): $set of status and lastSeen, whatever the stored document
\* holds by now; the save of a document that was deleted meanwhile rejects
updateStatusSave(p) ==
  LET c == calls[p]
  IN /\ c.pc = "saveStatus"
     /\ IF c.userId \notin users
          THEN /\ calls' = [calls EXCEPT ![p] = Fail(c, PlainError)]
               /\ UNCHANGED userDocs
          ELSE /\ userDocs' = [userDocs EXCEPT ![c.userId] =
                                 [status |-> c.type, lastSeen |-> c.date]]
               /\ calls' = [calls EXCEPT ![p] =
                              [c EXCEPT !.pc = IF c.type = OFFLINE THEN "sRemOnline"
                                               ELSE "sAddOnline"]]
     /\ UNCHANGED <<users, rooms, userRooms, ncalls, base, messageVars,
                    onlineUsers, userOnline>>

\* status === OFFLINE: redisClient.sRem(REDIS_KEYS.ONLINE_USERS, userId)
updateStatusSRem(p) ==
  LET c == calls[p]
  IN /\ c.pc = "sRemOnline"
     /\ c.op = "updateStatus"
     /\ onlineUsers' = onlineUsers \ {c.userId}
     /\ calls' = [calls EXCEPT ![p] = [c EXCEPT !.pc = "delOnline"]]
     /\ UNCHANGED <<users, rooms, userRooms, ncalls, base, messageVars,
                    userDocs, userOnline>>

\* redisClient.del(REDIS_KEYS.USER_ONLINE(userId)); user.toJSON() is returned
updateStatusDel(p) ==
  LET c == calls[p]
  IN /\ c.pc = "delOnline"
     /\ c.op = "updateStatus"
     /\ userOnline' = [userOnline EXCEPT ![c.userId] = <<>>]
     /\ calls' = [calls EXCEPT ![p] = Return(c, 0, FALSE)]
     /\ UNCHANGED <<users, rooms, userRooms, ncalls, base, messageVars,
                    userDocs, onlineUsers>>

\* another status: redisClient.sAdd(REDIS_KEYS.ONLINE_USERS, userId)
updateStatusSAdd(p) ==
  LET c == calls[p]
  IN /\ c.pc = "sAddOnline"
     /\ onlineUsers' = onlineUsers \cup {c.userId}
     /\ calls' = [calls EXCEPT ![p] = [c EXCEPT !.pc = "setOnline"]]
     /\ UNCHANGED <<users, rooms, userRooms, ncalls, base, messageVars,
                    userDocs, userOnline>>

\* redisClient.set(REDIS_KEYS.USER_ONLINE(userId), JSON.stringify({status,
\* lastSeen: new Date()}), 3600); user.toJSON() is returned
updateStatusSet(p) ==
  LET c == calls[p]
  IN /\ c.pc = "setOnline"
     /\ userOnline' = [userOnline EXCEPT ![c.userId] =
                         <<[status |-> c.type, lastSeen |-> ncalls]>>]
     /\ calls' = [calls EXCEPT ![p] = Return(c, 0, FALSE)]
     /\ UNCHANGED <<users, rooms, userRooms, ncalls, base, messageVars,
                    userDocs, onlineUsers>>

\* the hour of a USER_ONLINE key has passed
userOnlineExpire ==
  \E u \in Users :
    /\ userOnline[u] # <<>>
    /\ userOnline' = [userOnline EXCEPT ![u] = <<>>]
    /\ UNCHANGED <<users, rooms, userRooms, calls, ncalls, base, messageVars,
                   userDocs, onlineUsers>>

\* a test of presence that reads the USER_ONLINE key of the user
isUserOnlineByKey(p, targets, overlap) ==
  \E u \in targets :
    LET c == [Idle EXCEPT !.op = "isUserOnline", !.target = u]
    IN /\ IssueWithin(p, Return(c, 0, userOnline[u] # <<>>), overlap, MaxMsgCalls)
       /\ UNCHANGED <<users, rooms, userRooms, messageVars, presenceVars>>

\* isUserOnline: redisClient.sIsMember(REDIS_KEYS.ONLINE_USERS, userId)
isUserOnline(p, targets, overlap) ==
  \E u \in targets :
    LET c == [Idle EXCEPT !.op = "isUserOnline", !.target = u]
    IN /\ IssueWithin(p, Return(c, 0, u \in onlineUsers), overlap, MaxMsgCalls)
       /\ UNCHANGED <<users, rooms, userRooms, messageVars, presenceVars>>

\* ------------------------------------------------- documents and save()
\* roomSchema.methods.addParticipant, on the loaded document
addParticipantDoc(doc, userId) ==
  IF Includes(doc.participants, userId) THEN doc
  ELSE [doc EXCEPT !.participants = Append(@, userId)]

\* roomSchema.methods.removeParticipant, on the loaded document
removeParticipantDoc(doc, userId) ==
  [doc EXCEPT !.participants = Without(@, userId), !.admins = Without(@, userId)]

\* roomSchema.methods.makeAdmin, on the loaded document
makeAdminDoc(doc, userId) ==
  IF isParticipant(doc, userId) /\ ~isAdmin(doc, userId)
    THEN [doc EXCEPT !.admins = Append(@, userId)]
    ELSE doc

\* roomSchema.methods.removeAdmin: if (userId === this.createdBy) throw Error
removeAdminUnguarded(doc, userId) == FALSE

removeAdminRefuses(doc, userId) == userId = doc.createdBy

\* roomSchema.methods.removeAdmin, on the loaded document
removeAdminDoc(doc, userId) == [doc EXCEPT !.admins = Without(@, userId)]

\* room.removeParticipant: if (room.createdBy === participantId) throw BadRequestError
removesCreator(doc, participantId) == doc.createdBy = participantId

\* save() after array pushes: $push of the new elements, $inc of __v
SavePush(stored, old, new) ==
  [stored EXCEPT
     !.participants = @ \o SubSeq(new.participants, Len(old.participants) + 1,
                                  Len(new.participants)),
     !.admins = @ \o SubSeq(new.admins, Len(old.admins) + 1, Len(new.admins)),
     !.v = @ + 1]

\* save() after array assignments: the arrays that changed are modified paths
Modified(old, new) == new.participants # old.participants \/ new.admins # old.admins

\* the update carries the condition __v = the loaded version
VersionConflict(stored, old, new) == Modified(old, new) /\ stored.v # old.v

\* $set of the arrays that changed, $inc of __v
SaveSet(stored, old, new) ==
  IF ~Modified(old, new) THEN stored
  ELSE [stored EXCEPT
          !.participants = IF new.participants # old.participants
                             THEN new.participants ELSE @,
          !.admins = IF new.admins # old.admins THEN new.admins ELSE @,
          !.v = @ + 1]

\* the loaded document after a successful save
Saved(old, new) == IF new = old THEN old ELSE [new EXCEPT !.v = old.v + 1]

\* -------------------------------------------------------- addParticipants
\* from Room.findById to the await of User.find
addParticipants(p, callers, arrays, extra, overlap) ==
  \E u \in callers \cap users, r \in 1..(Len(rooms) + extra), ids \in arrays :
    LET c == [Idle EXCEPT !.op = "addParticipants", !.userId = u, !.roomId = r,
                          !.ids = ids]
    IN /\ Issue(p, IF r > Len(rooms) THEN Fail(c, NotFoundError)
                   ELSE IF ~isAdmin(rooms[r], u) THEN Fail(c, AuthorizationError)
                   ELSE IF DirectRoom(rooms[r]) THEN Fail(c, BadRequestError)
                   ELSE [c EXCEPT !.pc = "validate", !.doc = rooms[r]], overlap)
       /\ UNCHANGED <<users, presenceVars, rooms, userRooms, messageVars>>

\* the result of User.find, then the loop to the first await in it
addParticipantsValidate(p) ==
  LET c == calls[p]
  IN /\ c.pc = "validate"
     /\ c.op = "addParticipants"
     /\ Step(p, IF Cardinality(FoundUsers(c.ids)) # Len(c.ids) THEN Fail(c, BadRequestError)
                ELSE IF c.ids = <<>> THEN Return(c, c.roomId, c.doc.isActive)
                ELSE [c EXCEPT !.pc = "add", !.i = 1])

\* await room.addParticipant(participantId): push and save(), or nothing
addParticipantsAdd(p) ==
  LET c == calls[p]
      new == addParticipantDoc(c.doc, c.ids[c.i])
  IN /\ c.pc = "add"
     /\ rooms' = IF new = c.doc THEN rooms
                 ELSE [rooms EXCEPT ![c.roomId] = SavePush(@, c.doc, new)]
     /\ calls' = [calls EXCEPT ![p] = [c EXCEPT !.pc = "sadd", !.doc = Saved(c.doc, new)]]
     /\ UNCHANGED <<users, presenceVars, userRooms, ncalls, base, messageVars>>

\* await redisClient.sAdd(USER_ROOMS(participantId), roomId), next round
addParticipantsCache(p) ==
  LET c == calls[p]
  IN /\ c.pc = "sadd"
     /\ userRooms' = SAdd(userRooms, {c.ids[c.i]}, c.roomId)
     /\ calls' = [calls EXCEPT ![p] =
                    IF c.i = Len(c.ids) THEN Return(c, c.roomId, c.doc.isActive)
                    ELSE [c EXCEPT !.pc = "add", !.i = c.i + 1]]
     /\ UNCHANGED <<users, presenceVars, rooms, ncalls, base, messageVars>>

\* ------------------------------------------- removeParticipant, leaveRoom
\* from Room.findById to the await of save() in room.removeParticipant
removeParticipantLoaded(c, r) ==
  IF r > Len(rooms) THEN Fail(c, NotFoundError)
  ELSE IF c.userId # c.target /\ ~isAdmin(rooms[r], c.userId)
    THEN Fail(c, AuthorizationError)
  ELSE IF DirectRoom(rooms[r]) THEN Fail(c, BadRequestError)
  ELSE IF removesCreator(rooms[r], c.target) THEN Fail(c, BadRequestError)
  ELSE [c EXCEPT !.pc = "save", !.doc = rooms[r]]

removeParticipant(p, callers, targets, extra, overlap) ==
  \E u \in callers \cap users, r \in 1..(Len(rooms) + extra), t \in targets :
    /\ Issue(p, removeParticipantLoaded(
                  [Idle EXCEPT !.op = "removeParticipant", !.userId = u, !.roomId = r,
                               !.target = t], r), overlap)
    /\ UNCHANGED <<users, presenceVars, rooms, userRooms, messageVars>>

\* leaveRoom is removeParticipant(roomId, userId, userId)
leaveRoom(p, callers, extra, overlap) ==
  \E u \in callers \cap users, r \in 1..(Len(rooms) + extra) :
    /\ Issue(p, removeParticipantLoaded(
                  [Idle EXCEPT !.op = "leaveRoom", !.userId = u, !.roomId = r,
                               !.target = u], r), overlap)
    /\ UNCHANGED <<users, presenceVars, rooms, userRooms, messageVars>>

\* the save() of room.removeParticipant
removeParticipantSave(p) ==
  LET c == calls[p]
      new == removeParticipantDoc(c.doc, c.target)
  IN /\ c.pc = "save"
     /\ c.op \in {"removeParticipant", "leaveRoom"}
     /\ IF VersionConflict(rooms[c.roomId], c.doc, new)
          THEN /\ rooms' = rooms
               /\ calls' = [calls EXCEPT ![p] = Fail(c, VersionError)]
          ELSE /\ rooms' = [rooms EXCEPT ![c.roomId] = SaveSet(@, c.doc, new)]
               /\ calls' = [calls EXCEPT ![p] = [c EXCEPT !.pc = "cache"]]
     /\ UNCHANGED <<users, presenceVars, userRooms, ncalls, base, messageVars>>

\* redisClient.sRem(USER_ROOMS(participantId), roomId)
removeParticipantCache(p) ==
  LET c == calls[p]
  IN /\ c.pc = "cache"
     /\ c.op \in {"removeParticipant", "leaveRoom"}
     /\ userRooms' = SRem(userRooms, {c.target}, c.roomId)
     /\ calls' = [calls EXCEPT ![p] = Return(c, c.roomId, c.doc.isActive)]
     /\ UNCHANGED <<users, presenceVars, rooms, ncalls, base, messageVars>>

\* ------------------------------------------------------------- updateRoom
\* data.name of updateRoom that is undefined
Absent == "undefined"

\* from Room.findById to the await of room.save(); description and avatar are
\* not modelled
updateRoom(p, callers, names, extra, overlap) ==
  \E u \in callers \cap users, r \in 1..(Len(rooms) + extra), n \in names :
    LET c == [Idle EXCEPT !.op = "updateRoom", !.userId = u, !.roomId = r, !.name = n]
    IN /\ Issue(p, IF r > Len(rooms) THEN Fail(c, NotFoundError)
                   ELSE IF ~isAdmin(rooms[r], u) THEN Fail(c, AuthorizationError)
                   ELSE IF DirectRoom(rooms[r]) THEN Fail(c, BadRequestError)
                   ELSE [c EXCEPT !.pc = "save", !.doc = rooms[r]], overlap)
       /\ UNCHANGED <<users, presenceVars, rooms, userRooms, messageVars>>

\* if (data.name !== undefined) room.name = data.name; room.save(): the
\* pre('validate') hooks, then the $set of name when its value changed
updateRoomSave(p) ==
  LET c == calls[p]
      new == IF c.name = Absent THEN c.doc ELSE [c.doc EXCEPT !.name = c.name]
  IN /\ c.pc = "save"
     /\ c.op = "updateRoom"
     /\ IF ~ValidateRoom(new)
          THEN /\ calls' = [calls EXCEPT ![p] = Fail(c, PlainError)]
               /\ UNCHANGED rooms
          ELSE /\ rooms' = IF new.name = c.doc.name THEN rooms
                           ELSE [rooms EXCEPT ![c.roomId].name = new.name]
               /\ calls' = [calls EXCEPT ![p] = Return(c, c.roomId, c.doc.isActive)]
     /\ UNCHANGED <<users, presenceVars, userRooms, ncalls, base, messageVars>>

\* -------------------------------------------------- makeAdmin, removeAdmin
\* from Room.findById to the await of save() in room.makeAdmin
makeAdmin(p, callers, targets, extra, overlap) ==
  \E u \in callers \cap users, r \in 1..(Len(rooms) + extra), t \in targets :
    LET c == [Idle EXCEPT !.op = "makeAdmin", !.userId = u, !.roomId = r, !.target = t]
    IN /\ Issue(p, IF r > Len(rooms) THEN Fail(c, NotFoundError)
                   ELSE IF ~isAdmin(rooms[r], u) THEN Fail(c, AuthorizationError)
                   ELSE IF DirectRoom(rooms[r]) THEN Fail(c, BadRequestError)
                   ELSE [c EXCEPT !.pc = "save", !.doc = rooms[r]], overlap)
       /\ UNCHANGED <<users, presenceVars, rooms, userRooms, messageVars>>

\* the save() of room.makeAdmin: a push
makeAdminSave(p) ==
  LET c == calls[p]
      new == makeAdminDoc(c.doc, c.target)
  IN /\ c.pc = "save"
     /\ c.op = "makeAdmin"
     /\ rooms' = IF new = c.doc THEN rooms
                 ELSE [rooms EXCEPT ![c.roomId] = SavePush(@, c.doc, new)]
     /\ calls' = [calls EXCEPT ![p] = Return(c, c.roomId, c.doc.isActive)]
     /\ UNCHANGED <<users, presenceVars, userRooms, ncalls, base, messageVars>>

\* from Room.findById to the await of save() in room.removeAdmin
removeAdmin(p, callers, targets, extra, overlap) ==
  \E u \in callers \cap users, r \in 1..(Len(rooms) + extra), t \in targets :
    LET c == [Idle EXCEPT !.op = "removeAdmin", !.userId = u, !.roomId = r, !.target = t]
    IN /\ Issue(p, IF r > Len(rooms) THEN Fail(c, NotFoundError)
                   ELSE IF ~isAdmin(rooms[r], u) THEN Fail(c, AuthorizationError)
                   ELSE IF removeAdminRefuses(rooms[r], t) THEN Fail(c, PlainError)
                   ELSE [c EXCEPT !.pc = "save", !.doc = rooms[r]], overlap)
       /\ UNCHANGED <<users, presenceVars, rooms, userRooms, messageVars>>

\* the save() of room.removeAdmin: an assignment of admins
removeAdminSave(p) ==
  LET c == calls[p]
      new == removeAdminDoc(c.doc, c.target)
  IN /\ c.pc = "save"
     /\ c.op = "removeAdmin"
     /\ IF VersionConflict(rooms[c.roomId], c.doc, new)
          THEN /\ rooms' = rooms
               /\ calls' = [calls EXCEPT ![p] = Fail(c, VersionError)]
          ELSE /\ rooms' = [rooms EXCEPT ![c.roomId] = SaveSet(@, c.doc, new)]
               /\ calls' = [calls EXCEPT ![p] = Return(c, c.roomId, c.doc.isActive)]
     /\ UNCHANGED <<users, presenceVars, userRooms, ncalls, base, messageVars>>

\* ------------------------------------------------- MessageService, cache
\* count.toString() and parseInt(cachedCount, 10)
toString(n) == ToString(n)
parseInt(str) == CHOOSE n \in 0..MaxMsgCalls : ToString(n) = str

\* redisClient.del / set of REDIS_KEYS.UNREAD_COUNT(userId, roomId)
UnreadDelRoom(cache, u, r) ==
  [k \in Users \X RoomIds |-> IF k[2] = r THEN NIL ELSE cache[k]]

UnreadDel(cache, u, r) ==
  [k \in Users \X RoomIds |-> IF k = <<u, r>> THEN NIL ELSE cache[k]]
UnreadSet(cache, u, r, str) ==
  [k \in Users \X RoomIds |-> IF k = <<u, r>> THEN str ELSE cache[k]]

\* the filter {room, sender: {$ne: userId}, readBy: {$ne: userId},
\* isDeleted: false} of countDocuments and of updateMany
UnreadOrRead(ms, r, u) ==
  {k \in 1..Len(ms) : /\ ms[k].room = r
                      /\ ms[k].sender # u
                      /\ ~ms[k].isDeleted}

Unread(ms, r, u) ==
  {k \in 1..Len(ms) : /\ ms[k].room = r
                      /\ ms[k].sender # u
                      /\ ~Includes(ms[k].readBy, u)
                      /\ ~ms[k].isDeleted}

\* messageSchema.post('save'): Room.findByIdAndUpdate(doc.room,
\* {lastMessage: doc._id}); it runs after every save() of a message
PostSave(last, k) == [last EXCEPT ![messages[k].room] = k]

\* ----------------------------------------------------------- sendMessage
\* messageSchema.pre('validate'): the file types need a fileUrl, which
\* Message.create of sendMessage never passes; text and system pass
ValidateMessage(type) == type # IMAGE

\* the document of Message.create
NewMessageUnread(r, u, content, type, replyTo) ==
  [room |-> r, sender |-> u, content |-> content, type |-> type, readBy |-> <<>>,
   isEdited |-> FALSE, isDeleted |-> FALSE, deletedAt |-> NoDate,
   replyTo |-> replyTo]

NewMessage(r, u, content, type, replyTo) ==
  [room |-> r, sender |-> u, content |-> content, type |-> type, readBy |-> <<u>>,
   isEdited |-> FALSE, isDeleted |-> FALSE, deletedAt |-> NoDate,
   replyTo |-> replyTo]

\* from Room.findById to the await of Message.create; data.replyTo is the id
\* of a message in the store, of any room, or absent (0)
sendMessage(p, callers, contents, types, replies, extra, overlap) ==
  \E u \in callers, r \in 1..(Len(rooms) + extra), content \in contents, t \in types,
     reply \in replies \cap 0..Len(messages) :
    LET c == [Idle EXCEPT !.op = "sendMessage", !.userId = u, !.roomId = r,
                          !.content = content, !.type = t, !.replyTo = reply]
    IN /\ IssueWithin(p, IF r > Len(rooms) THEN Fail(c, NotFoundError)
                         ELSE IF ~isParticipant(rooms[r], u)
                           THEN Fail(c, AuthorizationError)
                         ELSE [c EXCEPT !.pc = "insert", !.doc = rooms[r]],
                      overlap, MaxMsgCalls)
       /\ UNCHANGED <<users, presenceVars, rooms, userRooms, messageVars>>

\* Message.create: validation, then the insert
sendMessageCreate(p) ==
  LET c == calls[p]
  IN /\ c.pc = "insert"
     /\ c.op = "sendMessage"
     /\ IF ~ValidateMessage(c.type)
          THEN /\ calls' = [calls EXCEPT ![p] = Fail(c, PlainError)]
               /\ UNCHANGED messages
          ELSE /\ messages' = Append(messages, NewMessage(c.roomId, c.userId, c.content, c.type, c.replyTo))
               /\ calls' = [calls EXCEPT ![p] = [c EXCEPT !.pc = "hook",
                                                          !.messageId = Len(messages) + 1]]
     /\ UNCHANGED <<users, presenceVars, rooms, userRooms, ncalls, base, lastMessage, unread>>

\* the post('save') hook of the created message, then the populate calls
sendMessageHook(p) ==
  LET c == calls[p]
  IN /\ c.pc = "hook"
     /\ c.op = "sendMessage"
     /\ lastMessage' = PostSave(lastMessage, c.messageId)
     /\ calls' = [calls EXCEPT ![p] = [c EXCEPT !.pc = "save"]]
     /\ UNCHANGED <<users, presenceVars, rooms, userRooms, ncalls, base, messages, unread>>

\* room.lastMessage = message._id; room.save(): the pre('validate') hooks run
\* on the loaded document; lastMessage is the modified path (updatedAt is not
\* modelled), written by $set without a condition
sendMessageSave(p) ==
  LET c == calls[p]
  IN /\ c.pc = "save"
     /\ c.op = "sendMessage"
     /\ IF ~ValidateRoom(c.doc)
          THEN /\ calls' = [calls EXCEPT ![p] = Fail(c, PlainError)]
               /\ UNCHANGED lastMessage
          ELSE /\ lastMessage' = [lastMessage EXCEPT ![c.roomId] = c.messageId]
               /\ calls' = [calls EXCEPT ![p] = [c EXCEPT !.pc = "del"]]
     /\ UNCHANGED <<users, presenceVars, rooms, userRooms, ncalls, base, messages, unread>>

\* redisClient.del of the sender's unread count; the message is returned
sendMessageDel(p) ==
  LET c == calls[p]
  IN /\ c.pc = "del"
     /\ c.op = "sendMessage"
     /\ unread' = UnreadDel(unread, c.userId, c.roomId)
     /\ calls' = [calls EXCEPT ![p] = Return(c, c.messageId, FALSE)]
     /\ UNCHANGED <<users, presenceVars, rooms, userRooms, ncalls, base, messages, lastMessage>>

\* ------------------------------------------- updateMessage, deleteMessage
\* message.save() after assignments of scalars: the paths whose value changed
\* are written by $set without a condition; readBy is not among them
SaveWhole(stored, old, new) == new

SaveMessage(stored, old, new) ==
  [stored EXCEPT
     !.content = IF new.content # old.content THEN new.content ELSE @,
     !.isEdited = IF new.isEdited # old.isEdited THEN new.isEdited ELSE @,
     !.isDeleted = IF new.isDeleted # old.isDeleted THEN new.isDeleted ELSE @,
     !.deletedAt = IF new.deletedAt # old.deletedAt THEN new.deletedAt ELSE @]

\* the checks of updateMessage on the loaded message: only the sender, not a
\* deleted message, only a text message
updateMessageAnyType(message, userId) ==
  IF message.sender # userId THEN AuthorizationError
  ELSE IF message.isDeleted THEN BadRequestError
  ELSE OK

updateMessageRefuses(message, userId) ==
  IF message.sender # userId THEN AuthorizationError
  ELSE IF message.isDeleted THEN BadRequestError
  ELSE IF message.type # TEXT THEN BadRequestError
  ELSE OK

\* from Message.findById to the await of message.save()
updateMessage(p, callers, contents, extra, overlap) ==
  \E u \in callers, k \in 1..(Len(messages) + extra), content \in contents :
    LET c == [Idle EXCEPT !.op = "updateMessage", !.userId = u, !.messageId = k,
                          !.content = content]
    IN /\ IssueWithin(p, IF k > Len(messages) THEN Fail(c, NotFoundError)
                         ELSE IF updateMessageRefuses(messages[k], u) # OK
                           THEN Fail(c, updateMessageRefuses(messages[k], u))
                         ELSE [c EXCEPT !.pc = "save", !.message = messages[k]],
                      overlap, MaxMsgCalls)
       /\ UNCHANGED <<users, presenceVars, rooms, userRooms, messageVars>>

\* message.content = data.content; message.isEdited = true; message.save()
updateMessageSave(p) ==
  LET c == calls[p]
      new == [c.message EXCEPT !.content = c.content, !.isEdited = TRUE]
  IN /\ c.pc = "save"
     /\ c.op = "updateMessage"
     /\ messages' = [messages EXCEPT ![c.messageId] = SaveMessage(@, c.message, new)]
     /\ calls' = [calls EXCEPT ![p] = [c EXCEPT !.pc = "hook"]]
     /\ UNCHANGED <<users, presenceVars, rooms, userRooms, ncalls, base, lastMessage, unread>>

\* the post('save') hook that ends the save() of updateMessage, deleteMessage
\* and markAsRead; the call returns
messagePostSave(p) ==
  LET c == calls[p]
  IN /\ c.pc = "hook"
     /\ c.op \in {"updateMessage", "deleteMessage", "markMessageAsRead"}
     /\ lastMessage' = PostSave(lastMessage, c.messageId)
     /\ calls' = [calls EXCEPT ![p] = Return(c, c.messageId, FALSE)]
     /\ UNCHANGED <<users, presenceVars, rooms, userRooms, ncalls, base, messages, unread>>

\* from Message.findById to the await of Room.findById
deleteMessage(p, callers, extra, overlap) ==
  \E u \in callers, k \in 1..(Len(messages) + extra) :
    LET c == [Idle EXCEPT !.op = "deleteMessage", !.userId = u, !.messageId = k]
    IN /\ IssueWithin(p, IF k > Len(messages) THEN Fail(c, NotFoundError)
                         ELSE [c EXCEPT !.pc = "room", !.message = messages[k]],
                      overlap, MaxMsgCalls)
       /\ UNCHANGED <<users, presenceVars, rooms, userRooms, messageVars>>

\* isSender || room?.isAdmin(userId)
deleteMessageParticipant(message, room, userId) ==
  message.sender = userId \/ isParticipant(room, userId)

deleteMessageAllowed(message, room, userId) ==
  message.sender = userId \/ isAdmin(room, userId)

\* from the result of Room.findById to the await of message.save(); the
\* date of the deletion is taken here
deleteMessageRoom(p) ==
  LET c == calls[p]
      room == rooms[c.message.room]
  IN /\ c.pc = "room"
     /\ c.op = "deleteMessage"
     /\ Step(p, IF ~deleteMessageAllowed(c.message, room, c.userId)
                  THEN Fail(c, AuthorizationError)
                  ELSE [c EXCEPT !.pc = "save", !.date = ncalls])

\* message.isDeleted = true; message.deletedAt = new Date(); message.save()
deleteMessageSave(p) ==
  LET c == calls[p]
      new == [c.message EXCEPT !.isDeleted = TRUE, !.deletedAt = c.date]
  IN /\ c.pc = "save"
     /\ c.op = "deleteMessage"
     /\ messages' = [messages EXCEPT ![c.messageId] = SaveMessage(@, c.message, new)]
     /\ calls' = [calls EXCEPT ![p] = [c EXCEPT !.pc = "hook"]]
     /\ UNCHANGED <<users, presenceVars, rooms, userRooms, ncalls, base, lastMessage, unread>>

\* ------------------------------------- markMessageAsRead, markRoomAsRead
\* messageSchema.methods.markAsRead, on the loaded document
markAsReadAgain(message, userId) ==
  [message EXCEPT !.readBy = Append(@, userId)]

markAsReadDoc(message, userId) ==
  IF Includes(message.readBy, userId) THEN message
  ELSE [message EXCEPT !.readBy = Append(@, userId)]

\* save() after a push to readBy: $push of the new elements
SavePushRead(stored, old, new) ==
  [stored EXCEPT !.readBy = @ \o SubSeq(new.readBy, Len(old.readBy) + 1, Len(new.readBy))]

\* from Message.findById to the await of Room.findById
markMessageAsRead(p, callers, extra, overlap) ==
  \E u \in callers, k \in 1..(Len(messages) + extra) :
    LET c == [Idle EXCEPT !.op = "markMessageAsRead", !.userId = u, !.messageId = k]
    IN /\ IssueWithin(p, IF k > Len(messages) THEN Fail(c, NotFoundError)
                         ELSE [c EXCEPT !.pc = "room", !.message = messages[k]],
                      overlap, MaxMsgCalls)
       /\ UNCHANGED <<users, presenceVars, rooms, userRooms, messageVars>>

\* from the result of Room.findById into message.markAsRead: without a push
\* there is no save() and the call returns
markMessageAsReadRoom(p) ==
  LET c == calls[p]
      room == rooms[c.message.room]
  IN /\ c.pc = "room"
     /\ c.op = "markMessageAsRead"
     /\ Step(p, IF ~isParticipant(room, c.userId) THEN Fail(c, AuthorizationError)
                ELSE IF markAsReadDoc(c.message, c.userId) = c.message
                  THEN Return(c, c.messageId, FALSE)
                ELSE [c EXCEPT !.pc = "save"])

\* this.readBy.push(userId); this.save()
markMessageAsReadSave(p) ==
  LET c == calls[p]
  IN /\ c.pc = "save"
     /\ c.op = "markMessageAsRead"
     /\ messages' = [messages EXCEPT ![c.messageId] =
                       SavePushRead(@, c.message, markAsReadDoc(c.message, c.userId))]
     /\ calls' = [calls EXCEPT ![p] = [c EXCEPT !.pc = "hook"]]
     /\ UNCHANGED <<users, presenceVars, rooms, userRooms, ncalls, base, lastMessage, unread>>

\* from Room.findById to the await of Message.updateMany
markRoomAsRead(p, callers, extra, overlap) ==
  \E u \in callers, r \in 1..(Len(rooms) + extra) :
    LET c == [Idle EXCEPT !.op = "markRoomAsRead", !.userId = u, !.roomId = r]
    IN /\ IssueWithin(p, IF r > Len(rooms) THEN Fail(c, NotFoundError)
                         ELSE IF ~isParticipant(rooms[r], u)
                           THEN Fail(c, AuthorizationError)
                         ELSE [c EXCEPT !.pc = "update"],
                      overlap, MaxMsgCalls)
       /\ UNCHANGED <<users, presenceVars, rooms, userRooms, messageVars>>

\* an update that adds the user to readBy of every message of the room
AllReadEvery(ms, r, u) ==
  [k \in 1..Len(ms) |->
     IF ms[k].room = r THEN [ms[k] EXCEPT !.readBy = Append(@, u)] ELSE ms[k]]

\* Message.updateMany(filter, {$addToSet: {readBy: userId}})
AllRead(ms, r, u) ==
  [k \in 1..Len(ms) |->
     IF k \in Unread(ms, r, u) THEN [ms[k] EXCEPT !.readBy = Append(@, u)] ELSE ms[k]]

markRoomAsReadUpdate(p) ==
  LET c == calls[p]
  IN /\ c.pc = "update"
     /\ messages' = AllRead(messages, c.roomId, c.userId)
     /\ calls' = [calls EXCEPT ![p] = [c EXCEPT !.pc = "del", !.seen = Len(messages)]]
     /\ UNCHANGED <<users, presenceVars, rooms, userRooms, ncalls, base, lastMessage, unread>>

\* redisClient.del of the caller's unread count
markRoomAsReadDel(p) ==
  LET c == calls[p]
  IN /\ c.pc = "del"
     /\ c.op = "markRoomAsRead"
     /\ unread' = UnreadDel(unread, c.userId, c.roomId)
     /\ calls' = [calls EXCEPT ![p] = Return(c, 0, FALSE)]
     /\ UNCHANGED <<users, presenceVars, rooms, userRooms, ncalls, base, messages, lastMessage>>

\* ---------------------------------------------------------- getUnreadCount
\* the messages that the last markRoomAsRead(r, u) that has returned saw
SeenByRead(u, r) ==
  LET reads == {q \in Procs : /\ calls[q].op = "markRoomAsRead"
                              /\ calls[q].pc = "done"
                              /\ calls[q].res = OK
                              /\ calls[q].userId = u
                              /\ calls[q].roomId = r}
  IN IF reads = {} THEN -1
     ELSE CHOOSE n \in {calls[q].seen : q \in reads} :
            \A q \in reads : calls[q].seen <= n

\* redisClient.get: a cached count is parsed and returned, else the await of
\* Message.countDocuments
getUnreadCount(p, callers, overlap) ==
  \E u \in callers, r \in 1..Len(rooms) :
    LET c == [Idle EXCEPT !.op = "getUnreadCount", !.userId = u, !.roomId = r,
                          !.seen = SeenByRead(u, r)]
    IN /\ IssueWithin(p, IF unread[<<u, r>>] # NIL
                           THEN Return(c, parseInt(unread[<<u, r>>]), FALSE)
                         ELSE [c EXCEPT !.pc = "count"],
                      overlap, MaxMsgCalls)
       /\ UNCHANGED <<users, presenceVars, rooms, userRooms, messageVars>>

\* Message.countDocuments(filter)
getUnreadCountCount(p) ==
  LET c == calls[p]
  IN /\ c.pc = "count"
     /\ Step(p, [c EXCEPT !.pc = "set",
                          !.i = Cardinality(Unread(messages, c.roomId, c.userId))])

\* redisClient.set(key, count.toString(), 300); count is returned
getUnreadCountSet(p) ==
  LET c == calls[p]
  IN /\ c.pc = "set"
     /\ unread' = UnreadSet(unread, c.userId, c.roomId, toString(c.i))
     /\ calls' = [calls EXCEPT ![p] = Return(c, c.i, FALSE)]
     /\ UNCHANGED <<users, presenceVars, rooms, userRooms, ncalls, base, messages, lastMessage>>

\* the 300 seconds of a cached count are over
unreadExpire ==
  \E k \in Users \X RoomIds :
    /\ unread[k] # NIL
    /\ unread' = [unread EXCEPT ![k] = NIL]
    /\ UNCHANGED <<users, presenceVars, rooms, userRooms, calls, ncalls, base, messages, lastMessage>>

\* -------------------------------------------------- getTotalUnreadCount
\* from Room.find({participants: userId, isActive: true}) to the await of
\* countDocuments; view holds the ids of the rooms found
RECURSIVE ActiveRoomsOf(_, _, _)
ActiveRoomsOf(rs, u, r) ==
  IF r = 0 THEN <<>>
  ELSE IF Includes(rs[r].participants, u) /\ rs[r].isActive
    THEN Append(ActiveRoomsOf(rs, u, r - 1), r)
  ELSE ActiveRoomsOf(rs, u, r - 1)

getTotalUnreadCount(p, callers, overlap) ==
  \E u \in callers :
    LET c == [Idle EXCEPT !.op = "getTotalUnreadCount", !.userId = u]
    IN /\ IssueWithin(p, [c EXCEPT !.pc = "sum",
                                   !.view = ActiveRoomsOf(rooms, u, Len(rooms))],
                      overlap, MaxMsgCalls)
       /\ UNCHANGED <<users, presenceVars, rooms, userRooms, messageVars>>

\* the filter {room: {$in: roomIds}, sender: {$ne: userId},
\* readBy: {$ne: userId}, isDeleted: false}
UnreadIn(ms, roomIds, u) ==
  {k \in 1..Len(ms) : /\ ms[k].room \in Range(roomIds)
                      /\ ms[k].sender # u
                      /\ ~Includes(ms[k].readBy, u)
                      /\ ~ms[k].isDeleted}

\* Message.countDocuments(filter); count is returned
getTotalUnreadCountCount(p) ==
  LET c == calls[p]
  IN /\ c.pc = "sum"
     /\ c.op = "getTotalUnreadCount"
     /\ Step(p, Return(c, Cardinality(UnreadIn(messages, c.view, c.userId)), FALSE))

\* ------------------------------------------- failures of cache and store
\* An operation of the cache or of the store rejects: the store is not
\* reachable, the connection of the cache is lost.  The wrappers of the cache
\* log and rethrow; the catch blocks of the services log and rethrow, except
\* those of getUnreadCount and getTotalUnreadCount, which return 0.

\* one of the sAdd calls after Room.create rejects; those before it are done
createRoomCacheFails(p) ==
  LET c == calls[p]
      all == IF c.type = DIRECT THEN <<c.userId>> \o c.ids ELSE c.ids \o <<c.userId>>
  IN /\ c.pc = "cache"
     /\ c.op \in {"createRoom", "getOrCreateDirectRoom"}
     /\ \E n \in 0..(Len(all) - 1) :
          userRooms' = SAdd(userRooms, Range(SubSeq(all, 1, n)), c.ret)
     /\ calls' = [calls EXCEPT ![p] = Fail(c, PlainError)]
     /\ UNCHANGED <<users, presenceVars, rooms, ncalls, base, messageVars>>

\* the sAdd after room.addParticipant rejects
addParticipantsCacheFails(p) ==
  LET c == calls[p]
  IN /\ c.pc = "sadd"
     /\ Step(p, Fail(c, PlainError))

\* the sRem after room.removeParticipant rejects
removeParticipantCacheFails(p) ==
  LET c == calls[p]
  IN /\ c.pc = "cache"
     /\ c.op \in {"removeParticipant", "leaveRoom"}
     /\ Step(p, Fail(c, PlainError))

\* the del of the sender's unread count after room.save() rejects
sendMessageDelFails(p) ==
  LET c == calls[p]
  IN /\ c.pc = "del"
     /\ c.op = "sendMessage"
     /\ Step(p, Fail(c, PlainError))

\* redisClient.get rejects: catch (error) { return 0 }
getUnreadCountGetFails(p, callers, overlap) ==
  \E u \in callers, r \in 1..Len(rooms) :
    LET c == [Idle EXCEPT !.op = "getUnreadCount", !.userId = u, !.roomId = r,
                          !.seen = SeenByRead(u, r)]
    IN /\ IssueWithin(p, Return(c, 0, FALSE), overlap, MaxMsgCalls)
       /\ UNCHANGED <<users, presenceVars, rooms, userRooms, messageVars>>

\* Message.countDocuments rejects: catch (error) { return 0 }
getUnreadCountCountFails(p) ==
  LET c == calls[p]
  IN /\ c.pc = "count"
     /\ Step(p, Return(c, 0, FALSE))

\* redisClient.set rejects after the count: catch (error) { return 0 }
getUnreadCountSetFails(p) ==
  LET c == calls[p]
  IN /\ c.pc = "set"
     /\ Step(p, Return(c, 0, FALSE))

\* Room.find of getTotalUnreadCount rejects: catch (error) { return 0 }
getTotalUnreadCountFindFails(p, callers, overlap) ==
  \E u \in callers :
    LET c == [Idle EXCEPT !.op = "getTotalUnreadCount", !.userId = u]
    IN /\ IssueWithin(p, Return(c, 0, FALSE), overlap, MaxMsgCalls)
       /\ UNCHANGED <<users, presenceVars, rooms, userRooms, messageVars>>

\* Message.countDocuments of getTotalUnreadCount rejects
getTotalUnreadCountCountFails(p) ==
  LET c == calls[p]
  IN /\ c.pc = "sum"
     /\ c.op = "getTotalUnreadCount"
     /\ Step(p, Return(c, 0, FALSE))

\* ------------------------------------------------------------------ reads
\* the content that the toJSON of a deleted message reports
Placeholder == "This message has been deleted"

\* message.toObject() of the message k: the fields that a reader sees.  A
\* reply target that populate('replyTo') has loaded is a document inside the
\* document; toObject() converts it by its own toObject()
toObject(ms, k, populated) ==
  [id |-> k, content |-> ms[k].content, isDeleted |-> ms[k].isDeleted,
   replyTo |-> IF populated /\ ms[k].replyTo # 0
                 THEN <<[id |-> ms[k].replyTo,
                         content |-> ms[ms[k].replyTo].content,
                         isDeleted |-> ms[ms[k].replyTo].isDeleted]>>
                 ELSE <<>>]

\* messageSchema.methods.toJSON: obj = this.toObject(); the content of a
\* deleted message is replaced in obj
toJSON(ms, k, populated) ==
  LET obj == toObject(ms, k, populated)
  IN IF obj.isDeleted THEN [obj EXCEPT !.content = Placeholder] ELSE obj

\* the messages of Message.find({room, isDeleted: false}).sort({createdAt: -1})
RECURSIVE FoundMessages(_, _, _)
FoundMessages(ms, r, k) ==
  IF k = 0 THEN <<>>
  ELSE IF ms[k].room = r /\ ~ms[k].isDeleted
    THEN <<toJSON(ms, k, TRUE)>> \o FoundMessages(ms, r, k - 1)
  ELSE FoundMessages(ms, r, k - 1)

\* room.toJSON() of a room with lastMessage populated: the document inside
\* the document is converted by its own toJSON()
RoomToJSON(ms, last, r) ==
  IF last[r] = 0 THEN <<>> ELSE <<toJSON(ms, last[r], FALSE)>>

\* the rooms of Room.find({participants: userId, isActive: true})
RECURSIVE FoundRooms(_, _, _, _, _)
FoundRooms(rs, ms, last, u, r) ==
  IF r = 0 THEN <<>>
  ELSE IF Includes(rs[r].participants, u) /\ rs[r].isActive
    THEN FoundRooms(rs, ms, last, u, r - 1) \o RoomToJSON(ms, last, r)
  ELSE FoundRooms(rs, ms, last, u, r - 1)

\* populate(path) of an array of user ids: each id of a stored user becomes
\* the User document, an id without a user is left out
RECURSIVE populate(_, _)
populate(ids, us) ==
  IF ids = <<>> THEN <<>>
  ELSE IF Head(ids) \in us THEN <<[id |-> Head(ids)]>> \o populate(Tail(ids), us)
       ELSE populate(Tail(ids), us)

\* the ids of the documents of a populated array
PopulatedIds(ids, us) ==
  LET docs == populate(ids, us) IN [j \in 1..Len(docs) |-> docs[j].id]

\* Document.prototype.toString(): the inspected form of the document
DocToString(d) == "{ _id: " \o d.id \o " }"

\* room.isParticipant(userId) of a room loaded with populate('participants'):
\* some(id => id.toString() === userId.toString()) meets User documents
isParticipantPopulated(doc, us, userId) ==
  LET docs == populate(doc.participants, us)
  IN \E i \in 1..Len(docs) : DocToString(docs[i]) = userId

\* getMessageById from Message.findById with its populate calls to the await
\* of Room.findById; view is the JSON form of the loaded message
getMessageById(p, callers, extra, overlap) ==
  \E u \in callers, k \in 1..(Len(messages) + extra) :
    LET c == [Idle EXCEPT !.op = "getMessageById", !.userId = u, !.messageId = k]
    IN /\ IssueWithin(p, IF k > Len(messages) THEN Fail(c, NotFoundError)
                         ELSE [c EXCEPT !.pc = "room", !.message = messages[k],
                                        !.view = <<toJSON(messages, k, TRUE)>>],
                      overlap, MaxMsgCalls)
       /\ UNCHANGED <<users, presenceVars, rooms, userRooms, messageVars>>

\* the result of Room.findById: the message is returned to a participant
getMessageByIdRoom(p) ==
  LET c == calls[p]
  IN /\ c.pc = "room"
     /\ c.op = "getMessageById"
     /\ Step(p, IF ~isParticipant(rooms[c.message.room], c.userId)
                  THEN Fail(c, AuthorizationError)
                  ELSE Return(c, c.messageId, FALSE))

\* getRoomMessages from Room.findById to the await of Message.find
getRoomMessages(p, callers, extra, overlap) ==
  \E u \in callers, r \in 1..(Len(rooms) + extra) :
    LET c == [Idle EXCEPT !.op = "getRoomMessages", !.userId = u, !.roomId = r]
    IN /\ IssueWithin(p, IF r > Len(rooms) THEN Fail(c, NotFoundError)
                         ELSE IF ~isParticipant(rooms[r], u)
                           THEN Fail(c, AuthorizationError)
                         ELSE [c EXCEPT !.pc = "messages"],
                      overlap, MaxMsgCalls)
       /\ UNCHANGED <<users, presenceVars, rooms, userRooms, messageVars>>

\* Message.find with its populate calls, to the await of countDocuments
getRoomMessagesFind(p) ==
  LET c == calls[p]
  IN /\ c.pc = "messages"
     /\ c.op = "getRoomMessages"
     /\ Step(p, [c EXCEPT !.pc = "total",
                          !.view = FoundMessages(messages, c.roomId, Len(messages))])

\* the total of countDocuments; the page of messages is returned
getRoomMessagesTotal(p) ==
  LET c == calls[p]
  IN /\ c.pc = "total"
     /\ c.op = "getRoomMessages"
     /\ Step(p, Return(c, c.roomId, FALSE))

\* getRoomById from Room.findById with its populate calls to the await of
\* countDocuments
getRoomById(p, callers, extra, overlap) ==
  \E u \in callers, r \in 1..(Len(rooms) + extra) :
    LET c == [Idle EXCEPT !.op = "getRoomById", !.userId = u, !.roomId = r]
    IN /\ IssueWithin(p, IF r > Len(rooms) THEN Fail(c, NotFoundError)
                         ELSE IF ~isParticipantPopulated(rooms[r], users, u)
                           THEN Fail(c, AuthorizationError)
                         ELSE [c EXCEPT !.pc = "unread", !.doc = rooms[r],
                                        !.view = RoomToJSON(messages, lastMessage, r)],
                      overlap, MaxMsgCalls)
       /\ UNCHANGED <<users, presenceVars, rooms, userRooms, messageVars>>

\* the unread count of countDocuments; {...room.toJSON(), unreadCount} is
\* returned
getRoomByIdUnread(p) ==
  LET c == calls[p]
  IN /\ c.pc = "unread"
     /\ c.op = "getRoomById"
     /\ Step(p, [Return(c, c.roomId, c.doc.isActive)
                   EXCEPT !.i = Cardinality(Unread(messages, c.roomId, c.userId))])

\* getRoomParticipants: Room.findById with populate('participants'); the
\* participants and admins of the loaded room are returned
getRoomParticipants(p, callers, extra, overlap) ==
  \E u \in callers, r \in 1..(Len(rooms) + extra) :
    LET c == [Idle EXCEPT !.op = "getRoomParticipants", !.userId = u, !.roomId = r]
    IN /\ IssueWithin(p, IF r > Len(rooms) THEN Fail(c, NotFoundError)
                         ELSE IF ~isParticipantPopulated(rooms[r], users, u)
                           THEN Fail(c, AuthorizationError)
                         ELSE [Return(c, r, FALSE) EXCEPT !.doc = rooms[r]],
                      overlap, MaxMsgCalls)
       /\ UNCHANGED <<users, presenceVars, rooms, userRooms, messageVars>>

\* new RegExp(query, 'i') tested on a content: the contents and queries of
\* the requests are whole words none of which is part of another, and the
\* empty query matches every content
Matches(content, query) == query = "" \/ content = query

\* the messages of Message.find({room, content: searchRegex, isDeleted:
\* false}).populate('sender').sort({createdAt: -1})
RECURSIVE SearchedMessages(_, _, _, _)
SearchedMessages(ms, r, query, k) ==
  IF k = 0 THEN <<>>
  ELSE IF ms[k].room = r /\ ~ms[k].isDeleted /\ Matches(ms[k].content, query)
    THEN <<toJSON(ms, k, FALSE)>> \o SearchedMessages(ms, r, query, k - 1)
  ELSE SearchedMessages(ms, r, query, k - 1)

\* searchMessages from Room.findById to the await of Message.find
searchMessages(p, callers, queries, extra, overlap) ==
  \E u \in callers, r \in 1..(Len(rooms) + extra), query \in queries :
    LET c == [Idle EXCEPT !.op = "searchMessages", !.userId = u, !.roomId = r,
                          !.content = query]
    IN /\ IssueWithin(p, IF r > Len(rooms) THEN Fail(c, NotFoundError)
                         ELSE IF ~isParticipant(rooms[r], u)
                           THEN Fail(c, AuthorizationError)
                         ELSE [c EXCEPT !.pc = "messages"],
                      overlap, MaxMsgCalls)
       /\ UNCHANGED <<users, presenceVars, rooms, userRooms, messageVars>>

\* Message.find of searchMessages, to the await of countDocuments
searchMessagesFind(p) ==
  LET c == calls[p]
  IN /\ c.pc = "messages"
     /\ c.op = "searchMessages"
     /\ Step(p, [c EXCEPT !.pc = "total",
                          !.view = SearchedMessages(messages, c.roomId, c.content,
                                                    Len(messages))])

\* the total of countDocuments; the page of found messages is returned
searchMessagesTotal(p) ==
  LET c == calls[p]
  IN /\ c.pc = "total"
     /\ c.op = "searchMessages"
     /\ Step(p, Return(c, c.roomId, FALSE))

\* getMessageReadReceipts from Message.findById with populate('readBy') to
\* the await of Room.findById
getMessageReadReceipts(p, callers, extra, overlap) ==
  \E u \in callers, k \in 1..(Len(messages) + extra) :
    LET c == [Idle EXCEPT !.op = "getMessageReadReceipts", !.userId = u,
                          !.messageId = k]
    IN /\ IssueWithin(p, IF k > Len(messages) THEN Fail(c, NotFoundError)
                         ELSE [c EXCEPT !.pc = "room", !.message = messages[k],
                                        !.ids = PopulatedIds(messages[k].readBy, users)],
                      overlap, MaxMsgCalls)
       /\ UNCHANGED <<users, presenceVars, rooms, userRooms, messageVars>>

\* the result of Room.findById: {messageId, readBy, readCount:
\* message.readBy.length} is returned to a participant
getMessageReadReceiptsRoom(p) ==
  LET c == calls[p]
  IN /\ c.pc = "room"
     /\ c.op = "getMessageReadReceipts"
     /\ Step(p, IF ~isParticipant(rooms[c.message.room], c.userId)
                  THEN [Fail(c, AuthorizationError) EXCEPT !.ids = <<>>]
                  ELSE [Return(c, c.messageId, FALSE) EXCEPT !.i = Len(c.ids)])

\* getUserRooms from Room.find with its populate calls to the await of
\* countDocuments
getUserRooms(p, callers, overlap) ==
  \E u \in callers :
    LET c == [Idle EXCEPT !.op = "getUserRooms", !.userId = u]
    IN /\ IssueWithin(p, [c EXCEPT !.pc = "total",
                                   !.view = FoundRooms(rooms, messages, lastMessage,
                                                       u, Len(rooms))],
                      overlap, MaxMsgCalls)
       /\ UNCHANGED <<users, presenceVars, rooms, userRooms, messageVars>>

\* the total of countDocuments, to the await of the unread counts
getUserRoomsTotal(p) ==
  LET c == calls[p]
  IN /\ c.pc = "total"
     /\ c.op = "getUserRooms"
     /\ Step(p, [c EXCEPT !.pc = "unread"])

\* the unread counts of Promise.all; the page of rooms is returned
getUserRoomsUnread(p) ==
  LET c == calls[p]
  IN /\ c.pc = "unread"
     /\ c.op = "getUserRooms"
     /\ Step(p, Return(c, 0, FALSE))

\* --------------------------------------------------------- specifications
\* steps of the calls in progress
Continue(p) ==
  \/ createRoomFind(p)
  \/ createRoomCreate(p)
  \/ createRoomCache(p)
  \/ getOrCreateDirectRoomFind(p)
  \/ createRoomValidate(p)
  \/ deleteRoomSave(p)
  \/ deleteRoomCache(p)
  \/ deleteAccountCascade(p)
  \/ deleteAccountMessages(p)
  \/ deleteAccountDelete(p)
  \/ deleteAccountDelOnline(p)
  \/ deleteAccountSRemOnline(p)
  \/ updateStatusSave(p)
  \/ updateStatusSRem(p)
  \/ updateStatusDel(p)
  \/ updateStatusSAdd(p)
  \/ updateStatusSet(p)
  \/ addParticipantsValidate(p)
  \/ addParticipantsAdd(p)
  \/ addParticipantsCache(p)
  \/ removeParticipantSave(p)
  \/ removeParticipantCache(p)
  \/ makeAdminSave(p)
  \/ removeAdminSave(p)
  \/ updateRoomSave(p)
  \/ sendMessageCreate(p)
  \/ sendMessageHook(p)
  \/ sendMessageSave(p)
  \/ sendMessageDel(p)
  \/ updateMessageSave(p)
  \/ messagePostSave(p)
  \/ deleteMessageRoom(p)
  \/ deleteMessageSave(p)
  \/ markMessageAsReadRoom(p)
  \/ markMessageAsReadSave(p)
  \/ markRoomAsReadUpdate(p)
  \/ markRoomAsReadDel(p)
  \/ getUnreadCountCount(p)
  \/ getUnreadCountSet(p)
  \/ getMessageByIdRoom(p)
  \/ getRoomMessagesFind(p)
  \/ getRoomMessagesTotal(p)
  \/ getRoomByIdUnread(p)
  \/ getUserRoomsTotal(p)
  \/ getUserRoomsUnread(p)
  \/ searchMessagesFind(p)
  \/ searchMessagesTotal(p)
  \/ getMessageReadReceiptsRoom(p)
  \/ getTotalUnreadCountCount(p)
  \/ createRoomCacheFails(p)
  \/ addParticipantsCacheFails(p)
  \/ removeParticipantCacheFails(p)
  \/ sendMessageDelFails(p)
  \/ getUnreadCountCountFails(p)
  \/ getUnreadCountSetFails(p)
  \/ getTotalUnreadCountCountFails(p)

\* every operation, with every request
Next ==
  \E p \in Procs :
    \/ createRoom(p, Users, ROOM_TYPES, [t \in ROOM_TYPES |-> IdArrays], TRUE)
    \/ getOrCreateDirectRoom(p, Users, UserIds, TRUE)
    \/ deleteRoom(p, Users, TRUE)
    \/ deleteAccount(p, Users, TRUE, MaxCalls)
    \/ updateStatus(p, Users, USER_STATUS, TRUE)
    \/ isUserOnline(p, Users, TRUE)
    \/ addParticipants(p, Users, IdArrays, 1, TRUE)
    \/ removeParticipant(p, Users, UserIds, 1, TRUE)
    \/ leaveRoom(p, Users, 1, TRUE)
    \/ makeAdmin(p, Users, UserIds, 1, TRUE)
    \/ removeAdmin(p, Users, UserIds, 1, TRUE)
    \/ updateRoom(p, Users, Names \cup {NoName, Absent}, 1, TRUE)
    \/ sendMessage(p, Users, Contents, MESSAGE_TYPES, 0..MaxMsgCalls, 1, TRUE)
    \/ getMessageById(p, Users, 1, TRUE)
    \/ getRoomMessages(p, Users, 1, TRUE)
    \/ getRoomById(p, Users, 1, TRUE)
    \/ getRoomParticipants(p, Users, 1, TRUE)
    \/ searchMessages(p, Users, Contents \cup {""}, 1, TRUE)
    \/ getMessageReadReceipts(p, Users, 1, TRUE)
    \/ getUserRooms(p, Users, TRUE)
    \/ updateMessage(p, Users, Contents, 1, TRUE)
    \/ deleteMessage(p, Users, 1, TRUE)
    \/ markMessageAsRead(p, Users, 1, TRUE)
    \/ markRoomAsRead(p, Users, 1, TRUE)
    \/ getUnreadCount(p, Users, TRUE)
    \/ getUnreadCountGetFails(p, Users, TRUE)
    \/ getTotalUnreadCount(p, Users, TRUE)
    \/ getTotalUnreadCountFindFails(p, Users, TRUE)
    \/ unreadExpire
    \/ userOnlineExpire
    \/ Continue(p)

Spec == Init /\ [][Next]_vars

\* The specifications below draw the requests from smaller sets.  The users
\* a and b issue the calls; c is a registered user that takes part as the
\* other participant or as the target of a call.
Callers == {"a", "b"}

\* createRoom alone, one call at a time: every participantIds array over a,
\* b and the unknown id for a direct room, some arrays for a group or channel
GroupArrays == {<<>>, <<"c">>, <<"c", "c">>, <<Ghost>>}
CreateArrays ==
  [t \in ROOM_TYPES |->
     IF t = DIRECT THEN SeqsUpTo({"a", "b", Ghost}, MaxIds) ELSE GroupArrays]

NextCreate ==
  \E p \in Procs :
    \/ createRoom(p, Callers, ROOM_TYPES, CreateArrays, FALSE)
    \/ createRoomFind(p)
    \/ createRoomCreate(p)
    \/ createRoomCache(p)

SpecCreate == Init /\ [][NextCreate]_vars

\* the direct rooms: overlapping calls of a and b, createRoom with every
\* user and getOrCreateDirectRoom with a and b, and the deletion of the
\* account of b
DirectArrays == [t \in ROOM_TYPES |-> {<<u>> : u \in Users}]

NextDirect ==
  \E p \in Procs :
    \/ createRoom(p, Callers, {DIRECT}, DirectArrays, TRUE)
    \/ getOrCreateDirectRoom(p, Callers, Callers, TRUE)
    \/ deleteRoom(p, Callers, TRUE)
    \/ deleteAccount(p, {"b"}, TRUE, MaxCalls)
    \/ createRoomFind(p)
    \/ createRoomCreate(p)
    \/ createRoomCache(p)
    \/ getOrCreateDirectRoomFind(p)
    \/ createRoomValidate(p)
    \/ deleteRoomSave(p)
    \/ deleteRoomCache(p)
    \/ deleteAccountCascade(p)
    \/ deleteAccountMessages(p)
    \/ deleteAccountDelete(p)
    \/ deleteAccountDelOnline(p)
    \/ deleteAccountSRemOnline(p)

SpecDirect == Init /\ [][NextDirect]_vars

\* the members of the group rooms that a creates (the operations do not
\* tell a channel from a group): overlapping calls of a and b with every
\* user as target
MemberArrays == [t \in ROOM_TYPES |-> {<<"b">>, <<"b", "c">>}]
AddArrays == {<<"c">>, <<"b", "c">>}

NextMembers ==
  \E p \in Procs :
    \/ createRoom(p, {"a"}, {GROUP}, MemberArrays, TRUE)
    \/ addParticipants(p, Callers, AddArrays, 0, TRUE)
    \/ removeParticipant(p, Callers, Users, 0, TRUE)
    \/ leaveRoom(p, Callers, 0, TRUE)
    \/ makeAdmin(p, Callers, Users, 0, TRUE)
    \/ removeAdmin(p, Callers, Users, 0, TRUE)
    \/ createRoomCreate(p)
    \/ createRoomCache(p)
    \/ addParticipantsValidate(p)
    \/ addParticipantsAdd(p)
    \/ addParticipantsCache(p)
    \/ removeParticipantSave(p)
    \/ removeParticipantCache(p)
    \/ makeAdminSave(p)
    \/ removeAdminSave(p)

SpecMembers == Init /\ [][NextMembers]_vars

\* The operations on the members of groups of a, and updateRoom with a new
\* name, an empty name or none, by a and by b.
NextGate ==
  \/ NextMembers
  \/ \E p \in Procs :
       \/ updateRoom(p, Callers, {"n2", NoName, Absent}, 0, TRUE)
       \/ updateRoomSave(p)

SpecGate == Init /\ [][NextGate]_vars

\* The operations that write the membership index, on groups of a: rooms
\* are created, filled, left and deleted in overlapping calls.
NextIndex ==
  \E p \in Procs :
    \/ createRoom(p, {"a"}, {GROUP}, MemberArrays, TRUE)
    \/ addParticipants(p, {"a"}, AddArrays, 0, TRUE)
    \/ removeParticipant(p, {"a"}, {"b"}, 0, TRUE)
    \/ leaveRoom(p, {"b"}, 0, TRUE)
    \/ deleteRoom(p, {"a"}, TRUE)
    \/ createRoomCreate(p)
    \/ createRoomCache(p)
    \/ addParticipantsValidate(p)
    \/ addParticipantsAdd(p)
    \/ addParticipantsCache(p)
    \/ removeParticipantSave(p)
    \/ removeParticipantCache(p)
    \/ deleteRoomSave(p)
    \/ deleteRoomCache(p)

SpecIndex == Init /\ [][NextIndex]_vars

\* the messages of one group room that a creates with b: overlapping
\* sendMessage calls of a and b, the deletion of the room, and the removal
\* of b
SendArrays == [t \in ROOM_TYPES |-> {<<"b">>}]

NextSend ==
  \E p \in Procs :
    \/ (rooms = <<>> /\ createRoom(p, {"a"}, {GROUP}, SendArrays, FALSE))
    \/ sendMessage(p, Callers, {"hi"}, {TEXT}, {0}, 0, TRUE)
    \/ deleteRoom(p, {"a"}, TRUE)
    \/ removeParticipant(p, {"a"}, {"b"}, 0, TRUE)
    \/ createRoomCreate(p)
    \/ createRoomCache(p)
    \/ sendMessageCreate(p)
    \/ sendMessageHook(p)
    \/ sendMessageSave(p)
    \/ sendMessageDel(p)
    \/ deleteRoomSave(p)
    \/ deleteRoomCache(p)
    \/ removeParticipantSave(p)
    \/ removeParticipantCache(p)

SpecSend == Init /\ [][NextSend]_vars

\* the unread counts of that room, one call at a time
NextCount ==
  \/ \E p \in Procs :
       \/ (rooms = <<>> /\ createRoom(p, {"a"}, {GROUP}, SendArrays, FALSE))
       \/ sendMessage(p, Callers, {"hi"}, {TEXT}, {0}, 0, FALSE)
       \/ deleteMessage(p, Callers, 0, FALSE)
       \/ markMessageAsRead(p, Callers, 0, FALSE)
       \/ markRoomAsRead(p, Callers, 0, FALSE)
       \/ getUnreadCount(p, Callers, FALSE)
       \/ createRoomCreate(p)
       \/ createRoomCache(p)
       \/ sendMessageCreate(p)
       \/ sendMessageHook(p)
       \/ sendMessageSave(p)
       \/ sendMessageDel(p)
       \/ deleteMessageRoom(p)
       \/ deleteMessageSave(p)
       \/ markMessageAsReadRoom(p)
       \/ markMessageAsReadSave(p)
       \/ messagePostSave(p)
       \/ markRoomAsReadUpdate(p)
       \/ markRoomAsReadDel(p)
       \/ getUnreadCountCount(p)
       \/ getUnreadCountSet(p)
  \/ unreadExpire

SpecCount == Init /\ [][NextCount]_vars

\* the unread counts of that room with overlapping calls: b sends, a reads
\* the room and a and b ask for their counts
NextUnread ==
  \/ \E p \in Procs :
       \/ (rooms = <<>> /\ createRoom(p, {"a"}, {GROUP}, SendArrays, FALSE))
       \/ sendMessage(p, Callers, {"hi"}, {TEXT}, {0}, 0, TRUE)
       \/ markRoomAsRead(p, {"a"}, 0, TRUE)
       \/ getUnreadCount(p, Callers, TRUE)
       \/ createRoomCreate(p)
       \/ createRoomCache(p)
       \/ sendMessageCreate(p)
       \/ sendMessageHook(p)
       \/ sendMessageSave(p)
       \/ sendMessageDel(p)
       \/ markRoomAsReadUpdate(p)
       \/ markRoomAsReadDel(p)
       \/ getUnreadCountCount(p)
       \/ getUnreadCountSet(p)
  \/ unreadExpire

SpecUnread == Init /\ [][NextUnread]_vars

\* the life of the messages of that room with overlapping calls: a and b
\* send, a edits and deletes, b reads, and the account of b is deleted
NextMessage ==
  \E p \in Procs :
    \/ (rooms = <<>> /\ createRoom(p, {"a"}, {GROUP}, SendArrays, FALSE))
    \/ sendMessage(p, Callers, {"hi"}, {TEXT}, {0}, 0, TRUE)
    \/ updateMessage(p, {"a"}, {"yo"}, 0, TRUE)
    \/ deleteMessage(p, {"a"}, 0, TRUE)
    \/ markMessageAsRead(p, {"b"}, 0, TRUE)
    \/ markRoomAsRead(p, {"b"}, 0, TRUE)
    \/ deleteAccount(p, {"b"}, TRUE, MaxMsgCalls)
    \/ createRoomCreate(p)
    \/ createRoomCache(p)
    \/ sendMessageCreate(p)
    \/ sendMessageHook(p)
    \/ sendMessageSave(p)
    \/ sendMessageDel(p)
    \/ updateMessageSave(p)
    \/ deleteMessageRoom(p)
    \/ deleteMessageSave(p)
    \/ markMessageAsReadRoom(p)
    \/ markMessageAsReadSave(p)
    \/ messagePostSave(p)
    \/ markRoomAsReadUpdate(p)
    \/ markRoomAsReadDel(p)
    \/ deleteAccountCascade(p)
    \/ deleteAccountMessages(p)
    \/ deleteAccountDelete(p)
    \/ deleteAccountDelOnline(p)
    \/ deleteAccountSRemOnline(p)

SpecMessage == Init /\ [][NextMessage]_vars

\* One group of a and b, created by a; both send text and system messages,
\* one call at a time, and both edit and delete the messages of the room in
\* overlapping calls.
NextEdit ==
  \E p \in Procs :
    \/ (rooms = <<>> /\ createRoom(p, {"a"}, {GROUP}, SendArrays, FALSE))
    \/ sendMessage(p, Callers, {"hi"}, {TEXT, SYSTEM}, {0}, 0, FALSE)
    \/ updateMessage(p, Callers, {"yo"}, 0, TRUE)
    \/ deleteMessage(p, Callers, 0, TRUE)
    \/ createRoomCreate(p)
    \/ createRoomCache(p)
    \/ sendMessageCreate(p)
    \/ sendMessageHook(p)
    \/ sendMessageSave(p)
    \/ sendMessageDel(p)
    \/ updateMessageSave(p)
    \/ deleteMessageRoom(p)
    \/ deleteMessageSave(p)
    \/ messagePostSave(p)

SpecEdit == Init /\ [][NextEdit]_vars

\* One direct room of a and b, created by a; both send messages and both
\* delete the messages of the room.
NextDirectEdit ==
  \E p \in Procs :
    \/ (rooms = <<>> /\ createRoom(p, {"a"}, {DIRECT}, SendArrays, FALSE))
    \/ sendMessage(p, Callers, {"hi"}, {TEXT}, {0}, 0, TRUE)
    \/ deleteMessage(p, Callers, 0, TRUE)
    \/ createRoomFind(p)
    \/ createRoomCreate(p)
    \/ createRoomCache(p)
    \/ sendMessageCreate(p)
    \/ sendMessageHook(p)
    \/ sendMessageSave(p)
    \/ sendMessageDel(p)
    \/ deleteMessageRoom(p)
    \/ deleteMessageSave(p)
    \/ messagePostSave(p)

SpecDirectEdit == Init /\ [][NextDirectEdit]_vars

\* Direct rooms and groups of a and b, created by a; a and b call the
\* operations on the name and on the members of the rooms.
NextDirectGate ==
  \E p \in Procs :
    \/ createRoom(p, {"a"}, {DIRECT, GROUP}, SendArrays, TRUE)
    \/ updateRoom(p, Callers, {"n2"}, 0, TRUE)
    \/ addParticipants(p, Callers, {<<"c">>}, 0, TRUE)
    \/ removeParticipant(p, Callers, Callers, 0, TRUE)
    \/ leaveRoom(p, Callers, 0, TRUE)
    \/ makeAdmin(p, Callers, Callers, 0, TRUE)
    \/ createRoomFind(p)
    \/ createRoomCreate(p)
    \/ createRoomCache(p)
    \/ updateRoomSave(p)
    \/ addParticipantsValidate(p)
    \/ addParticipantsAdd(p)
    \/ addParticipantsCache(p)
    \/ removeParticipantSave(p)
    \/ removeParticipantCache(p)
    \/ makeAdminSave(p)

SpecDirectGate == Init /\ [][NextDirectGate]_vars

\* One group of a and b, created by a; a sends messages, the later ones in
\* reply to the first, and deletes them; b reads messages and rooms.
NextRead ==
  \E p \in Procs :
    \/ (rooms = <<>> /\ createRoom(p, {"a"}, {GROUP}, SendArrays, FALSE))
    \/ sendMessage(p, {"a"}, {"hi"}, {TEXT}, {0, 1}, 0, FALSE)
    \/ deleteMessage(p, {"a"}, 0, TRUE)
    \/ getMessageById(p, {"b"}, 0, TRUE)
    \/ getRoomMessages(p, {"b"}, 0, TRUE)
    \/ getRoomById(p, {"b"}, 0, TRUE)
    \/ getUserRooms(p, {"b"}, TRUE)
    \/ createRoomCreate(p)
    \/ createRoomCache(p)
    \/ sendMessageCreate(p)
    \/ sendMessageHook(p)
    \/ sendMessageSave(p)
    \/ sendMessageDel(p)
    \/ deleteMessageRoom(p)
    \/ deleteMessageSave(p)
    \/ messagePostSave(p)
    \/ getMessageByIdRoom(p)
    \/ getRoomMessagesFind(p)
    \/ getRoomMessagesTotal(p)
    \/ getUserRoomsTotal(p)
    \/ getUserRoomsUnread(p)

SpecRead == Init /\ [][NextRead]_vars

\* One call at a time on groups of a, with a cache that can reject: rooms
\* are created and filled, b is removed, a sends messages.
NextFault ==
  \E p \in Procs :
    \/ createRoom(p, {"a"}, {GROUP}, MemberArrays, FALSE)
    \/ addParticipants(p, {"a"}, AddArrays, 0, FALSE)
    \/ removeParticipant(p, {"a"}, {"b"}, 0, FALSE)
    \/ sendMessage(p, {"a"}, {"hi"}, {TEXT}, {0}, 0, FALSE)
    \/ createRoomCreate(p)
    \/ createRoomCache(p)
    \/ createRoomCacheFails(p)
    \/ addParticipantsValidate(p)
    \/ addParticipantsAdd(p)
    \/ addParticipantsCache(p)
    \/ addParticipantsCacheFails(p)
    \/ removeParticipantSave(p)
    \/ removeParticipantCache(p)
    \/ removeParticipantCacheFails(p)
    \/ sendMessageCreate(p)
    \/ sendMessageHook(p)
    \/ sendMessageSave(p)
    \/ sendMessageDel(p)
    \/ sendMessageDelFails(p)

SpecFault == Init /\ [][NextFault]_vars

\* One group of a and b; both send, b reads the room, and both ask for
\* their unread counts, one call at a time, with a cache and a store that
\* can reject the operations of the counts.
NextCountFault ==
  \/ \E p \in Procs :
       \/ (rooms = <<>> /\ createRoom(p, {"a"}, {GROUP}, SendArrays, FALSE))
       \/ sendMessage(p, Callers, {"hi"}, {TEXT}, {0}, 0, FALSE)
       \/ markRoomAsRead(p, {"b"}, 0, FALSE)
       \/ getUnreadCount(p, Callers, FALSE)
       \/ getUnreadCountGetFails(p, Callers, FALSE)
       \/ getTotalUnreadCount(p, Callers, FALSE)
       \/ getTotalUnreadCountFindFails(p, Callers, FALSE)
       \/ createRoomCreate(p)
       \/ createRoomCache(p)
       \/ sendMessageCreate(p)
       \/ sendMessageHook(p)
       \/ sendMessageSave(p)
       \/ sendMessageDel(p)
       \/ markRoomAsReadUpdate(p)
       \/ markRoomAsReadDel(p)
       \/ getUnreadCountCount(p)
       \/ getUnreadCountSet(p)
       \/ getUnreadCountCountFails(p)
       \/ getUnreadCountSetFails(p)
       \/ getTotalUnreadCountCount(p)
       \/ getTotalUnreadCountCountFails(p)
  \/ unreadExpire

SpecCountFault == Init /\ [][NextCountFault]_vars

\* the reads of a room by b, whom a removes from the room, and by c, who
\* never was in it
NextAccess ==
  \E p \in Procs :
    \/ (rooms = <<>> /\ createRoom(p, {"a"}, {GROUP}, SendArrays, FALSE))
    \/ sendMessage(p, {"a"}, {"hi"}, {TEXT}, {0}, 0, FALSE)
    \/ removeParticipant(p, {"a"}, {"b"}, 0, TRUE)
    \/ getRoomById(p, {"b", "c"}, 0, TRUE)
    \/ getRoomParticipants(p, {"b", "c"}, 0, TRUE)
    \/ getRoomMessages(p, {"b", "c"}, 0, TRUE)
    \/ searchMessages(p, {"b", "c"}, {"hi"}, 0, TRUE)
    \/ getMessageById(p, {"b", "c"}, 0, TRUE)
    \/ getMessageReadReceipts(p, {"b", "c"}, 0, TRUE)
    \/ createRoomCreate(p)
    \/ createRoomCache(p)
    \/ sendMessageCreate(p)
    \/ sendMessageHook(p)
    \/ sendMessageSave(p)
    \/ sendMessageDel(p)
    \/ removeParticipantSave(p)
    \/ removeParticipantCache(p)
    \/ getRoomMessagesFind(p)
    \/ getRoomMessagesTotal(p)
    \/ searchMessagesFind(p)
    \/ searchMessagesTotal(p)
    \/ getMessageByIdRoom(p)
    \/ getMessageReadReceiptsRoom(p)

SpecAccess == Init /\ [][NextAccess]_vars

\* two rooms of a and b with their messages, some deleted, and the calls
\* that mark a room as read
NextReadAll ==
  \E p \in Procs :
    \/ (Len(rooms) < 2 /\ createRoom(p, {"a"}, {GROUP}, SendArrays, FALSE))
    \/ sendMessage(p, Callers, {"hi"}, {TEXT}, {0}, 0, FALSE)
    \/ deleteMessage(p, {"a"}, 0, TRUE)
    \/ markRoomAsRead(p, Callers, 0, TRUE)
    \/ createRoomCreate(p)
    \/ createRoomCache(p)
    \/ sendMessageCreate(p)
    \/ sendMessageHook(p)
    \/ sendMessageSave(p)
    \/ sendMessageDel(p)
    \/ deleteMessageRoom(p)
    \/ deleteMessageSave(p)
    \/ messagePostSave(p)
    \/ markRoomAsReadUpdate(p)
    \/ markRoomAsReadDel(p)

SpecReadAll == Init /\ [][NextReadAll]_vars

\* the presence of a: overlapping updateStatus calls, the deletion of the
\* account of a, the expiry of the USER_ONLINE key and isUserOnline
NextPresence ==
  \/ \E p \in Procs :
       \/ updateStatus(p, {"a"}, {ONLINE, AWAY, OFFLINE}, TRUE)
       \/ deleteAccount(p, {"a"}, TRUE, MaxMsgCalls)
       \/ isUserOnline(p, {"a"}, TRUE)
       \/ updateStatusSave(p)
       \/ updateStatusSRem(p)
       \/ updateStatusDel(p)
       \/ updateStatusSAdd(p)
       \/ updateStatusSet(p)
       \/ deleteAccountCascade(p)
       \/ deleteAccountMessages(p)
       \/ deleteAccountDelete(p)
       \/ deleteAccountDelOnline(p)
       \/ deleteAccountSRemOnline(p)
  \/ userOnlineExpire

SpecPresence == Init /\ [][NextPresence]_vars

\* ----------------------------------------------------------------- claims
\* a direct-room call of a user with one other user
IsDirectCall(c) ==
  /\ c.op \in {"createRoom", "getOrCreateDirectRoom"}
  /\ c.type = DIRECT
  /\ Len(c.ids) = 1
  /\ c.ids[1] # c.userId

\* the unordered pair a direct-room call is about
PairOf(c) == {c.userId, c.ids[1]}

ActiveDirect(r) == rooms[r].type = DIRECT /\ rooms[r].isActive

C2_ConcurrentCreateSameRoom ==
  \A p, q \in Procs :
    (/\ p # q
     /\ calls[p].op = "createRoom" /\ IsDirectCall(calls[p]) /\ calls[p].pc = "done"
     /\ calls[q].op = "createRoom" /\ IsDirectCall(calls[q]) /\ calls[q].pc = "done"
     /\ PairOf(calls[p]) = PairOf(calls[q]))
    => /\ calls[p].res = OK
       /\ calls[q].res = OK
       /\ calls[p].ret = calls[q].ret

\* C3: every room that a step creates has its creator in participants and in
\* admins in the state that the step commits.
C3_CreatorIsParticipantAndAdmin ==
  [][\A r \in 1..Len(rooms') :
       r > Len(rooms) => /\ isParticipant(rooms'[r], rooms'[r].createdBy)
                         /\ isAdmin(rooms'[r], rooms'[r].createdBy)]_vars

\* rooms of the three types have been created
C3_Witness ==
  \A t \in ROOM_TYPES :
    \E r \in 1..Len(rooms) : rooms[r].type = t /\ isAdmin(rooms[r], rooms[r].createdBy)

\* C7: every direct room has exactly two participants, and they are two
\* different users.
C7_DirectRoomHasTwoDistinctParticipants ==
  \A r \in 1..Len(rooms) :
    rooms[r].type = DIRECT =>
      /\ Len(rooms[r].participants) = 2
      /\ rooms[r].participants[1] # rooms[r].participants[2]

\* C8: createRoom for a direct room with 0 or with 2 and more participant
\* ids fails with BadRequest and leaves the rooms as they were.
C8_DirectNeedsExactlyOneId ==
  \A p \in Procs :
    (/\ calls[p].op = "createRoom"
     /\ calls[p].type = DIRECT
     /\ Len(calls[p].ids) # 1)
    => /\ calls[p].pc = "done"
       /\ calls[p].res = BadRequestError
       /\ rooms = base

\* a request with two different registered ids was refused, and one with no
\* id could be
C8_Witness ==
  \E p \in Procs :
    /\ calls[p].op = "createRoom"
    /\ calls[p].type = DIRECT
    /\ Len(calls[p].ids) = 2
    /\ Cardinality(FoundUsers(calls[p].ids)) = 2
    /\ calls[p].res = BadRequestError

\* C9: a direct-room call that returns a room returns an active room.
C9_ReturnsOnlyActiveRoom ==
  \A p \in Procs :
    (IsDirectCall(calls[p]) /\ calls[p].pc = "done" /\ calls[p].res = OK)
      => calls[p].retActive

MembershipOps == {"addParticipants", "removeParticipant", "leaveRoom", "makeAdmin",
                  "removeAdmin"}

\* C4: in every reachable state every admin of a room is a participant of it.
C4_AdminsSubsetOfParticipants ==
  \A r \in 1..Len(rooms) : Range(rooms[r].admins) \subseteq Range(rooms[r].participants)

\* C5: the creator of a group or channel room stays in its admins and in its
\* participants.
C5_CreatorStaysAdminAndParticipant ==
  \A r \in 1..Len(rooms) :
    rooms[r].type \in {GROUP, CHANNEL} =>
      /\ isAdmin(rooms[r], rooms[r].createdBy)
      /\ isParticipant(rooms[r], rooms[r].createdBy)

\* a second admin asked to demote the creator, and the call was refused
C5_Witness ==
  \E p \in Procs :
    /\ calls[p].op = "removeAdmin"
    /\ calls[p].pc = "done"
    /\ calls[p].roomId \in 1..Len(rooms)
    /\ calls[p].target = rooms[calls[p].roomId].createdBy
    /\ calls[p].userId # calls[p].target
    /\ isAdmin(rooms[calls[p].roomId], calls[p].userId)
    /\ calls[p].res # OK

\* C6: removeAdmin with the creator as target fails, and the error is an
\* AuthorizationError or a BadRequestError.
C6_RemoveCreatorFailsTyped ==
  \A p \in Procs :
    (/\ calls[p].op = "removeAdmin"
     /\ calls[p].pc = "done"
     /\ calls[p].roomId \in 1..Len(rooms)
     /\ calls[p].target = rooms[calls[p].roomId].createdBy)
    => calls[p].res \in {AuthorizationError, BadRequestError}

\* the room after call c ran on it alone
SeqEffect(c, doc) ==
  IF c.op = "addParticipants"
    THEN IF isAdmin(doc, c.userId) /\ doc.type # DIRECT
              /\ Cardinality(FoundUsers(c.ids)) = Len(c.ids)
           THEN LET d1 == IF Len(c.ids) >= 1 THEN addParticipantDoc(doc, c.ids[1]) ELSE doc
                IN IF Len(c.ids) >= 2 THEN addParticipantDoc(d1, c.ids[2]) ELSE d1
           ELSE doc
  ELSE IF c.op \in {"removeParticipant", "leaveRoom"}
    THEN IF (c.userId = c.target \/ isAdmin(doc, c.userId)) /\ doc.type # DIRECT
              /\ ~removesCreator(doc, c.target)
           THEN removeParticipantDoc(doc, c.target)
           ELSE doc
  ELSE IF c.op = "makeAdmin"
    THEN IF isAdmin(doc, c.userId) /\ doc.type # DIRECT
           THEN makeAdminDoc(doc, c.target)
           ELSE doc
  ELSE IF c.op = "removeAdmin"
    THEN IF isAdmin(doc, c.userId) /\ ~removeAdminRefuses(doc, c.target)
           THEN removeAdminDoc(doc, c.target)
           ELSE doc
  ELSE doc

\* the room after the calls of the slots order[k], order[k+1], ... ran one
\* after the other
RECURSIVE Serial(_, _, _)
Serial(order, k, doc) ==
  IF k > Len(order) THEN doc
  ELSE Serial(order, k + 1, SeqEffect(calls[order[k]], doc))

Batch == {p \in Procs : calls[p].op # "idle"}
Orders(B) == {o \in [1..Cardinality(B) -> B] : \A i, j \in 1..Cardinality(B) : o[i] = o[j] => i = j}
Members(doc) == <<Range(doc.participants), Range(doc.admins)>>

\* C10: when overlapping membership calls on one room have all returned
\* successfully, the participants and the admins of the room are those that
\* the same calls produce in some sequential order.
C10_MembershipCallsSerializable ==
  \A r \in 1..Len(base) :
    (/\ Quiet
     /\ Batch # {}
     /\ \A p \in Batch : /\ calls[p].op \in MembershipOps
                         /\ calls[p].roomId = r
                         /\ calls[p].res = OK)
    => \E o \in Orders(Batch) : Members(Serial(o, 1, base[r])) = Members(rooms[r])

\* ------------------------------------------------------- claims, messages
\* this step inserts a message / the message it inserts
Created == Len(messages') > Len(messages)
TheNew == messages'[Len(messages')]

\* the call in slot p is the sendMessage that inserts in this step
Creates(p) == calls[p].op = "sendMessage" /\ calls[p].pc = "insert" /\ calls'[p].pc = "hook"

\* C11: a sendMessage that found the room with isActive = false creates no
\* message.
C11_NoMessageIntoInactiveRoom ==
  [][Created => \A p \in Procs : Creates(p) => calls[p].doc.isActive]_vars

\* C12: every message is inserted while its sender is a participant of its
\* room in the store.
C12_SenderIsParticipantAtCreate ==
  [][Created => isParticipant(rooms[TheNew.room], TheNew.sender)]_vars

\* C13: a message is inserted with readBy holding the sender and no other
\* user.
C13_CreatedReadBySender ==
  [][Created => Range(TheNew.readBy) = {TheNew.sender}]_vars

\* a sendMessage has returned its message, in a room with another participant
C13_Witness ==
  \E p \in Procs :
    /\ calls[p].op = "sendMessage"
    /\ calls[p].pc = "done"
    /\ calls[p].res = OK
    /\ messages[calls[p].ret].sender = calls[p].userId
    /\ Range(rooms[calls[p].roomId].participants) # {calls[p].userId}

\* the messages of room r, and the one created last
MessagesOf(r) == {k \in 1..Len(messages) : messages[k].room = r}
Newest(r) == CHOOSE k \in MessagesOf(r) : \A j \in MessagesOf(r) : j <= k
Sending(r) ==
  \E p \in Procs : calls[p].op = "sendMessage" /\ Running(calls[p]) /\ calls[p].roomId = r

\* C14: when no sendMessage is in progress on a room that has a message,
\* lastMessage of the room is the message created last.
C14_LastMessageIsNewest ==
  \A r \in 1..Len(rooms) :
    (MessagesOf(r) # {} /\ ~Sending(r)) => lastMessage[r] = Newest(r)

\* the number of non-deleted messages of room r from other users that do not
\* hold u in readBy
UnreadOf(ms, r, u) ==
  Cardinality({k \in 1..Len(ms) : /\ ms[k].room = r
                                  /\ ~ms[k].isDeleted
                                  /\ ms[k].sender # u
                                  /\ u \notin Range(ms[k].readBy)})

\* the call in slot p returns in this step
Returns(p, op) ==
  calls'[p] # calls[p] /\ calls'[p].op = op /\ calls'[p].pc = "done"

\* C15: a getUnreadCount(room, U) call returns the number of non-deleted
\* messages of the room from other users that do not hold U in readBy.
C15_UnreadCountIsExact ==
  [][\A p \in Procs :
       Returns(p, "getUnreadCount")
         => calls'[p].ret = UnreadOf(messages', calls'[p].roomId, calls'[p].userId)]_vars

\* C15, with the cache: when one call runs at a time, a getUnreadCount(room,
\* U) call returns the cached count if the cache holds an entry for (U,
\* room), and otherwise the number of non-deleted messages of the room from
\* other users that do not hold U in readBy.
C15_UnreadCountReadThrough ==
  [][\A p \in Procs :
       Returns(p, "getUnreadCount")
         => LET k == <<calls'[p].userId, calls'[p].roomId>>
            IN calls'[p].ret = IF unread[k] # NIL THEN parseInt(unread[k])
                               ELSE UnreadOf(messages', k[2], k[1])]_vars

\* a getUnreadCount has counted unread messages in the store, cached the
\* number and returned it
C15_Witness ==
  \E p \in Procs :
    /\ calls[p].op = "getUnreadCount"
    /\ calls[p].pc = "done"
    /\ calls[p].ret >= 1
    /\ calls[p].ret = UnreadOf(messages, calls[p].roomId, calls[p].userId)
    /\ unread[<<calls[p].userId, calls[p].roomId>>] = toString(calls[p].ret)

\* C16: a getUnreadCount(room, U) call issued after a markRoomAsRead(room, U)
\* has returned, in a room that got no message of another user since,
\* returns 0.
C16_ZeroAfterRoomRead ==
  \A p \in Procs :
    LET c == calls[p]
    IN (/\ c.op = "getUnreadCount"
        /\ c.pc = "done"
        /\ c.seen >= 0
        /\ \A k \in (c.seen + 1)..Len(messages) :
             messages[k].room # c.roomId \/ messages[k].sender = c.userId)
       => c.ret = 0

\* C17: the steps of a sendMessage(sender, room) call leave every cached
\* unread count other than the one of (sender, room) unchanged, and that one
\* is absent when the call returns.
C17_SendClearsOnlySenderCount ==
  [][\A p \in Procs :
       (calls'[p] # calls[p] /\ calls'[p].op = "sendMessage")
         => /\ \A k \in Users \X RoomIds :
                 k # <<calls'[p].userId, calls'[p].roomId>> => unread'[k] = unread[k]
            /\ (calls'[p].pc = "done" /\ calls'[p].res = OK)
                 => unread'[<<calls'[p].userId, calls'[p].roomId>>] = NIL]_vars

\* a sendMessage has returned and the cached count of another user of the
\* room is still there, below the number of messages that user has not read
C17_Witness ==
  \E p \in Procs, w \in Users :
    /\ calls[p].op = "sendMessage"
    /\ calls[p].pc = "done"
    /\ calls[p].res = OK
    /\ w # calls[p].userId
    /\ unread[<<calls[p].userId, calls[p].roomId>>] = NIL
    /\ unread[<<w, calls[p].roomId>>] # NIL
    /\ parseInt(unread[<<w, calls[p].roomId>>]) < UnreadOf(messages, calls[p].roomId, w)

\* C18: a markMessageAsRead(message, U) call of a participant U that finds U
\* in readBy leaves the messages as they are and succeeds.
C18_MarkAsReadIdempotent ==
  [][\A p \in Procs :
       (/\ calls[p].op = "markMessageAsRead"
        /\ Running(calls[p])
        /\ calls'[p] # calls[p]
        /\ Includes(calls[p].message.readBy, calls[p].userId)
        /\ isParticipant(rooms[calls[p].message.room], calls[p].userId))
       => /\ messages' = messages
          /\ calls'[p].pc = "done"
          /\ calls'[p].res = OK]_vars

\* a markMessageAsRead of a participant who is not the sender has loaded the
\* message after an earlier application had added the user to readBy
C18_Witness ==
  \E p \in Procs :
    /\ calls[p].op = "markMessageAsRead"
    /\ calls[p].pc = "room"
    /\ calls[p].userId # calls[p].message.sender
    /\ Includes(calls[p].message.readBy, calls[p].userId)
    /\ isParticipant(rooms[calls[p].message.room], calls[p].userId)

\* C19: no step takes a user out of the readBy of a message, and no step
\* removes a message.
C19_ReadByOnlyGrows ==
  [][\A k \in 1..Len(messages) :
       /\ k <= Len(messages')
       /\ Range(messages[k].readBy) \subseteq Range(messages'[k].readBy)]_vars

\* a deleted message that another user had read, whose account is deleted
C19_Witness ==
  \E k \in 1..Len(messages), u \in Users :
    /\ messages[k].isDeleted
    /\ u # messages[k].sender
    /\ u \in Range(messages[k].readBy)
    /\ u \notin users

\* C20: once isDeleted is true, no step changes isDeleted, deletedAt, content,
\* isEdited or type of the message.
C20_DeletedIsTerminal ==
  [][\A k \in 1..Len(messages) :
       messages[k].isDeleted
         => /\ messages'[k].isDeleted
            /\ messages'[k].deletedAt = messages[k].deletedAt
            /\ messages'[k].content = messages[k].content
            /\ messages'[k].isEdited = messages[k].isEdited
            /\ messages'[k].type = messages[k].type]_vars

\* the call that a step issues is in slot p
Issued(p) ==
  /\ ncalls' = ncalls + 1
  /\ calls'[p].op # "idle"
  /\ IF Quiet THEN p = 1 ELSE calls[p].pc = "idle"

\* C21: an updateMessage call that finds the message deleted, or of a type
\* other than text, or sent by another user, fails with BadRequest or
\* Authorization and changes no message; and in every state a message with
\* isEdited = true has type text.
C21_UpdateRefused ==
  /\ [](\A k \in 1..Len(messages) : messages[k].isEdited => messages[k].type = TEXT)
  /\ [][\A p \in Procs :
         (/\ Issued(p)
          /\ calls'[p].op = "updateMessage"
          /\ calls'[p].messageId <= Len(messages)
          /\ \/ messages[calls'[p].messageId].isDeleted
             \/ messages[calls'[p].messageId].type # TEXT
             \/ messages[calls'[p].messageId].sender # calls'[p].userId)
         => /\ calls'[p].pc = "done"
            /\ calls'[p].res \in {BadRequestError, AuthorizationError}
            /\ messages' = messages]_vars

\* the sender of a system message that is not deleted was refused the edit
C21_Witness ==
  \E p \in Procs :
    /\ calls[p].op = "updateMessage"
    /\ calls[p].pc = "done"
    /\ calls[p].res = BadRequestError
    /\ messages[calls[p].messageId].type = SYSTEM
    /\ messages[calls[p].messageId].sender = calls[p].userId
    /\ ~messages[calls[p].messageId].isDeleted

\* a deleted message, or a deleted reply target, that a view shows with a
\* content other than the placeholder
Leaks(view) ==
  \E i \in 1..Len(view) :
    \/ view[i].isDeleted /\ view[i].content # Placeholder
    \/ \E j \in 1..Len(view[i].replyTo) :
         view[i].replyTo[j].isDeleted /\ view[i].replyTo[j].content # Placeholder

\* C22: what getMessageById, getRoomMessages, getRoomById and getUserRooms
\* return never shows the stored content of a message with isDeleted = true,
\* neither as the message itself, nor as a reply target, nor as lastMessage.
C22_DeletedContentNotRead ==
  \A p \in Procs :
    (/\ calls[p].op \in {"getMessageById", "getRoomMessages", "getRoomById", "getUserRooms"}
     /\ calls[p].pc = "done"
     /\ calls[p].res = OK)
    => ~Leaks(calls[p].view)

\* C23: a deleteMessage call whose caller is neither the sender of the
\* message nor in admins of the message's room fails with Authorization and
\* changes no message; isDeleted and deletedAt of a message change only by
\* the save of a deleteMessage call that passed this test.
C23_DeleteBySenderOrAdmin ==
  [][/\ \A p \in Procs :
          (/\ calls[p].op = "deleteMessage"
           /\ calls[p].pc = "room"
           /\ calls'[p] # calls[p])
          => IF \/ calls[p].message.sender = calls[p].userId
                \/ Includes(rooms[calls[p].message.room].admins, calls[p].userId)
               THEN calls'[p].pc = "save"
               ELSE /\ calls'[p].pc = "done"
                    /\ calls'[p].res = AuthorizationError
                    /\ messages' = messages
     /\ \A k \in 1..Len(messages) :
          (\/ messages'[k].isDeleted # messages[k].isDeleted
           \/ messages'[k].deletedAt # messages[k].deletedAt)
          => \E p \in Procs : /\ calls[p].op = "deleteMessage"
                               /\ calls[p].pc = "save"
                               /\ calls[p].messageId = k
                               /\ calls'[p].pc = "hook"]_vars

\* a participant of a group who is not an admin was refused the deletion of
\* another user's message, and the message is not deleted
C23_Witness ==
  \E p \in Procs :
    /\ calls[p].op = "deleteMessage"
    /\ calls[p].pc = "done"
    /\ calls[p].res = AuthorizationError
    /\ messages[calls[p].messageId].sender # calls[p].userId
    /\ isParticipant(rooms[messages[calls[p].messageId].room], calls[p].userId)
    /\ ~messages[calls[p].messageId].isDeleted

\* C24: in a direct room a deleteMessage call of a user who is not the
\* sender of the message fails with Authorization, whoever created the room.
C24_DirectOnlySender ==
  [][\A p \in Procs :
       (/\ calls[p].op = "deleteMessage"
        /\ calls[p].pc = "room"
        /\ calls'[p] # calls[p]
        /\ rooms[calls[p].message.room].type = DIRECT
        /\ calls[p].message.sender # calls[p].userId)
       => /\ calls'[p].pc = "done"
          /\ calls'[p].res = AuthorizationError]_vars

\* C25: at the step that completes deleteAccount(U), U is in neither
\* participants nor admins of any room; and no step removes a room.
C25_DeletedUserInNoRoom ==
  [][/\ Len(rooms') >= Len(rooms)
     /\ \A p \in Procs :
          (/\ calls[p].op = "deleteAccount"
           /\ Running(calls[p])
           /\ calls'[p].pc = "done"
           /\ calls'[p].res = OK)
          => \A r \in 1..Len(rooms') :
               /\ ~Includes(rooms'[r].participants, calls[p].userId)
               /\ ~Includes(rooms'[r].admins, calls[p].userId)]_vars

\* C26: at the step that completes deleteAccount(U), every message that U
\* sent has isDeleted = true; and no step removes a message.
C26_DeletedUserMessagesDeleted ==
  [][/\ Len(messages') >= Len(messages)
     /\ \A p \in Procs :
          (/\ calls[p].op = "deleteAccount"
           /\ Running(calls[p])
           /\ calls'[p].pc = "done"
           /\ calls'[p].res = OK)
          => \A k \in 1..Len(messages') :
               messages'[k].sender = calls[p].userId => messages'[k].isDeleted]_vars

C28_IndexIsActiveMembership ==
  Quiet => \A u \in Users :
             userRooms[u] = {r \in 1..Len(rooms) : /\ rooms[r].isActive
                                                   /\ Includes(rooms[r].participants, u)}

\* C29: with one call at a time, a createRoom, addParticipants,
\* removeParticipant or sendMessage call that raises an error leaves the
\* store as it was when the call began: the rooms are those of the start of
\* the call and the call has inserted no message.
C29_FailedCallWritesNothing ==
  [][\A p \in Procs :
       (/\ calls'[p].op \in {"createRoom", "addParticipants", "removeParticipant",
                             "sendMessage"}
        /\ calls'[p].pc = "done"
        /\ calls'[p].res # OK
        /\ Issued(p) \/ Running(calls[p]))
       => /\ rooms' = base'
          /\ calls'[p].messageId = 0]_vars

\* C30: a getUnreadCount or getTotalUnreadCount call that returns a number
\* returns the number read from the cache or the count of the store that the
\* call computed; a call in which an operation fails returns no number.
C30_CountIsReadOrComputed ==
  [][\A p \in Procs :
       (/\ calls'[p].op \in {"getUnreadCount", "getTotalUnreadCount"}
        /\ calls'[p].pc = "done"
        /\ calls'[p].res = OK
        /\ Issued(p) \/ Running(calls[p]))
       => \/ /\ Issued(p)
             /\ calls'[p].op = "getUnreadCount"
             /\ unread[<<calls'[p].userId, calls'[p].roomId>>] # NIL
             /\ calls'[p].ret = parseInt(unread[<<calls'[p].userId, calls'[p].roomId>>])
          \/ /\ calls[p].op = "getUnreadCount"
             /\ calls[p].pc = "set"
             /\ calls'[p].ret = calls[p].i
          \/ /\ calls[p].op = "getTotalUnreadCount"
             /\ calls[p].pc = "sum"
             /\ calls'[p].ret = Cardinality(UnreadIn(messages, calls[p].view,
                                                     calls[p].userId))]_vars

\* the operations that need an admin, as the call in slot p after the step
AdminGated(p) ==
  \/ calls'[p].op \in {"updateRoom", "addParticipants", "makeAdmin", "removeAdmin"}
  \/ calls'[p].op = "removeParticipant" /\ calls'[p].target # calls'[p].userId

\* C31: an updateRoom, addParticipants, makeAdmin or removeAdmin call, or a
\* removeParticipant call for another user, of a caller who is not in admins
\* of the room fails with Authorization and writes nothing: name,
\* participants and admins of every room stay as they are.
C31_NonAdminChangesNothing ==
  [][\A p \in Procs :
       (/\ Issued(p)
        /\ AdminGated(p)
        /\ calls'[p].roomId <= Len(rooms)
        /\ ~Includes(rooms[calls'[p].roomId].admins, calls'[p].userId))
       => /\ calls'[p].pc = "done"
          /\ calls'[p].res = AuthorizationError
          /\ rooms' = rooms]_vars

\* a participant of a group who is not an admin was refused updateRoom
C31_Witness ==
  \E p \in Procs :
    /\ calls[p].op = "updateRoom"
    /\ calls[p].pc = "done"
    /\ calls[p].res = AuthorizationError
    /\ calls[p].name = "n2"
    /\ Includes(rooms[calls[p].roomId].participants, calls[p].userId)
    /\ ~Includes(rooms[calls[p].roomId].admins, calls[p].userId)
    /\ rooms[calls[p].roomId].name = "n1"

\* C32: an updateRoom, addParticipants, removeParticipant, leaveRoom or
\* makeAdmin call on a direct room fails, whoever calls, and no step of these
\* operations changes name, participants or admins of a direct room.
C32_DirectRoomIsFixed ==
  [][/\ \A p \in Procs :
          (/\ Issued(p)
           /\ calls'[p].op \in {"updateRoom", "addParticipants", "removeParticipant",
                                "leaveRoom", "makeAdmin"}
           /\ calls'[p].roomId <= Len(rooms)
           /\ rooms[calls'[p].roomId].type = DIRECT)
          => /\ calls'[p].pc = "done"
             /\ calls'[p].res \in {AuthorizationError, BadRequestError}
     /\ \A r \in 1..Len(rooms) :
          rooms[r].type = DIRECT
            => /\ rooms'[r].name = rooms[r].name
               /\ rooms'[r].participants = rooms[r].participants
               /\ rooms'[r].admins = rooms[r].admins]_vars

\* a participant of a direct room was refused leaving it
C32_Witness ==
  \E p \in Procs :
    /\ calls[p].op = "leaveRoom"
    /\ calls[p].pc = "done"
    /\ calls[p].res = BadRequestError
    /\ rooms[calls[p].roomId].type = DIRECT
    /\ Includes(rooms[calls[p].roomId].participants, calls[p].userId)

\* C33: the save of a makeAdmin call whose target is not in participants of
\* the room leaves admins of the room as it is.
C33_MakeAdminOnlyParticipants ==
  [][\A p \in Procs :
       (/\ calls[p].op = "makeAdmin"
        /\ calls[p].pc = "save"
        /\ calls'[p] # calls[p]
        /\ ~Includes(rooms[calls[p].roomId].participants, calls[p].target))
       => rooms'[calls[p].roomId].admins = rooms[calls[p].roomId].admins]_vars

\* the call was refused and carries nothing of the room or its messages
Refused(c) ==
  /\ c.pc = "done"
  /\ c.res = AuthorizationError
  /\ c.view = <<>>
  /\ c.doc = NoDoc
  /\ c.message = NoMessage
  /\ c.ids = <<>>
  /\ c.i = 0

\* C34: a getRoomById, getRoomParticipants, getRoomMessages or searchMessages
\* call whose caller is not in participants of the room it loads, and a
\* getMessageById or getMessageReadReceipts call whose caller is not in
\* participants of the room of its message when that room is loaded, fails
\* with Authorization and carries no room or message data.
C34_NonParticipantReadsNothing ==
  [][\A p \in Procs :
       /\ (/\ Issued(p)
           /\ calls'[p].op \in {"getRoomById", "getRoomParticipants",
                                "getRoomMessages", "searchMessages"}
           /\ calls'[p].roomId <= Len(rooms)
           /\ ~Includes(rooms[calls'[p].roomId].participants, calls'[p].userId))
          => Refused(calls'[p])
       /\ (/\ calls[p].op \in {"getMessageById", "getMessageReadReceipts"}
           /\ calls[p].pc = "room"
           /\ calls'[p] # calls[p]
           /\ ~Includes(rooms[calls[p].message.room].participants, calls[p].userId))
          => Refused(calls'[p])]_vars

\* b, whom a has removed from the room, was refused the read receipts of a
\* message of the room, and a message of the room exists
C34_Witness ==
  \E p \in Procs :
    /\ calls[p].op = "getMessageReadReceipts"
    /\ calls[p].userId = "b"
    /\ Refused(calls[p])
    /\ messages[calls[p].messageId].room = 1
    /\ ~Includes(rooms[1].participants, "b")

\* the messages that a markRoomAsRead(r, u) is to change
ToRead(ms, r, u) ==
  {k \in 1..Len(ms) : /\ ms[k].room = r
                       /\ ~ms[k].isDeleted
                       /\ ms[k].sender # u
                       /\ ~Includes(ms[k].readBy, u)}

\* C35: the update of a markRoomAsRead(r, u) call appends u to readBy of the
\* non-deleted messages of r that u did not send and whose readBy did not
\* hold u, and leaves every other message, every other field and lastMessage
\* as they were; after it no message is left for a second update to change.
C35_MarkRoomAsReadFrame ==
  [][\A p \in Procs :
       (/\ calls[p].op = "markRoomAsRead"
        /\ calls[p].pc = "update"
        /\ calls'[p] # calls[p])
       => /\ Len(messages') = Len(messages)
          /\ \A k \in 1..Len(messages) :
               messages'[k] =
                 IF k \in ToRead(messages, calls[p].roomId, calls[p].userId)
                   THEN [messages[k] EXCEPT !.readBy = Append(@, calls[p].userId)]
                   ELSE messages[k]
          /\ lastMessage' = lastMessage
          /\ ToRead(messages', calls[p].roomId, calls[p].userId) = {}]_vars

\* b has marked room 1 as read: a message of a in it holds b in readBy, and
\* an unread message of a in room 2 does not
C35_Witness ==
  \E p \in Procs, k, j \in 1..Len(messages) :
    /\ calls[p].op = "markRoomAsRead"
    /\ calls[p].pc = "done"
    /\ calls[p].res = OK
    /\ calls[p].userId = "b"
    /\ calls[p].roomId = 1
    /\ messages[k].room = 1
    /\ messages[k].readBy = <<"a", "b">>
    /\ messages[j].room = 2
    /\ messages[j].readBy = <<"a">>

\* the call in slot p takes a step
Steps(p) == calls'[p] # calls[p] /\ Running(calls[p])

\* C36: a user leaves the online-users set only by a step of an
\* updateStatus(offline) call or of a deleteAccount call for that user, so
\* not by the expiry of a key; and an isUserOnline call returns true for a
\* user who is in the set.
C36_PresenceDoesNotExpire ==
  [][/\ \A u \in Users :
          (u \in onlineUsers /\ u \notin onlineUsers')
            => \E p \in Procs :
                 /\ Steps(p)
                 /\ calls[p].userId = u
                 /\ \/ calls[p].op = "updateStatus" /\ calls[p].type = OFFLINE
                    \/ calls[p].op = "deleteAccount"
     /\ \A p \in Procs :
          (/\ Issued(p)
           /\ calls'[p].op = "isUserOnline"
           /\ calls'[p].target \in onlineUsers)
          => /\ calls'[p].pc = "done"
             /\ calls'[p].res = OK
             /\ calls'[p].retActive]_vars

\* a was put into the online-users set, its USER_ONLINE key has expired, and
\* an isUserOnline call for a has returned true
C36_Witness ==
  \E p \in Procs :
    /\ calls[p].op = "isUserOnline"
    /\ calls[p].target = "a"
    /\ calls[p].pc = "done"
    /\ calls[p].retActive
    /\ "a" \in onlineUsers
    /\ userOnline["a"] = <<>>
    /\ userDocs["a"].status \in {ONLINE, AWAY}
    /\ \A q \in Procs : ~Running(calls[q])

\* C40: when no updateStatus call and no deleteAccount call is in progress,
\* the users in the online-users set are the stored users whose status is
\* not offline.
C40_OnlineSetMatchesStatus ==
  (\A p \in Procs : ~(/\ calls[p].op \in {"updateStatus", "deleteAccount"}
                       /\ Running(calls[p])))
    => \A u \in Users :
         u \in onlineUsers <=> (u \in users /\ userDocs[u].status # OFFLINE)

\* C37: no step of an updateMessage, deleteMessage or markMessageAsRead call
\* changes lastMessage of a room.
C37_LastMessageOnlyBySend ==
  [][\A p \in Procs :
       (Steps(p) /\ calls[p].op \in {"updateMessage", "deleteMessage",
                                     "markMessageAsRead"})
       => lastMessage' = lastMessage]_vars

\* an active direct room of the users u and v
DirectRoomOf(rs, u, v) ==
  {r \in 1..Len(rs) : /\ rs[r].type = DIRECT
                       /\ rs[r].isActive
                       /\ Range(rs[r].participants) = {u, v}}

\* C38: the Room.create of a createRoom(direct) call of u with another user
\* v, at a moment when u has an active direct room with a third user and no
\* direct room holds both u and v, inserts a room with participants {u, v}.
C38_DirectUniquenessIsPerPair ==
  [][\A p \in Procs :
       (/\ calls[p].op = "createRoom"
        /\ calls[p].type = DIRECT
        /\ calls[p].pc = "create"
        /\ calls'[p] # calls[p]
        /\ Len(calls[p].ids) = 1
        /\ calls[p].ids[1] # calls[p].userId
        /\ {calls[p].userId, calls[p].ids[1]} \subseteq users
        /\ \E w \in Users \ {calls[p].userId, calls[p].ids[1]} :
             DirectRoomOf(rooms, calls[p].userId, w) # {}
        /\ FindDirect(rooms, calls[p].userId, calls[p].ids[1]) = 0)
       => /\ calls'[p].pc = "cache"
          /\ Len(rooms') = Len(rooms) + 1
          /\ Range(rooms'[Len(rooms')].participants)
               = {calls[p].userId, calls[p].ids[1]}]_vars

\* C39: readBy of a message holds no user twice, so its length, which
\* getMessageReadReceipts returns as readCount, is the number of its readers.
C39_ReadByHoldsNoUserTwice ==
  \A k \in 1..Len(messages) :
    Len(messages[k].readBy) = Cardinality(Range(messages[k].readBy))
====
